---- MODULE Spec2Model ----
(***************************************************************************)
(* domx: the change-observation core of src/domx.js (observe, on, the      *)
(* shared MutationObserver, the requestAnimationFrame batching and the     *)
(* unsubscribe functions), with the host primitives it calls: a DOM tree   *)
(* with event dispatch, a MutationObserver record queue and the list of    *)
(* animation-frame callbacks.                                              *)
(*                                                                         *)
(* Every action is one script-level call or one host step.  The caller's   *)
(* callbacks (the observe() callback, the on() subscribers) are opaque:    *)
(* they return normally and the calls they could make are the other        *)
(* actions of the model, which may come between any two steps.             *)
(***************************************************************************)
EXTENDS Integers, Sequences, FiniteSets, TLC

Null == "null"
Undefined == "undefined"

\* Saturation point of the history counter trig (triggers since the last flush).
MaxTrig == 2
\* Most mutation records waiting in the observer's queue.
MaxRecords == 1

(***************************************************************************)
(* The document.  html > body > {a, b, c}; a is a text input, b a checkbox *)
(* and c a button; b and c have the class d and carry the attribute        *)
(* data-x.  The cells are the properties and attributes the model writes   *)
(* and some manifest reads; body's class attribute is written and read by  *)
(* no manifest, so its value is not kept.  Fixed holds what is read and    *)
(* never written.  t is the text node inside c, the only node that is not  *)
(* an element.                                                             *)
(***************************************************************************)
DocOrder == <<"html", "body", "a", "b", "c">>
Nodes == {DocOrder[i] : i \in 1..Len(DocOrder)}
Values == {"x0", "x1"}
Cells == {<<"a", "value">>, <<"b", "@data-x">>, <<"c", "@data-x">>}
Fixed == <<"b", "checked">> :> "false" @@ <<"b", "value">> :> "on"
           @@ <<"c", "textContent">> :> "Sort"

TextNodes == {"t"}

ParentElement(n) ==
  IF n = "body" THEN "html"
  ELSE IF n \in {"a", "b", "c"} THEN "body"
  ELSE IF n = "t" THEN "c"
  ELSE Null

\* Node.ELEMENT_NODE is 1, Node.TEXT_NODE is 3.
NodeType(n) == IF n \in TextNodes THEN 3 ELSE 1

\* element.matches(selector); a text node has no matches method.
Matches(n, selector) ==
  <<n, selector>> \in {<<"a", "#a">>, <<"b", "#b">>, <<"c", "#c">>, <<"body", "body">>,
                       <<"b", ".d">>, <<"c", ".d">>, <<"html", "html">>}

RECURSIVE Closest(_, _)
Closest(n, selector) ==
  IF n = Null THEN Null
  ELSE IF Matches(n, selector) THEN n
  ELSE Closest(ParentElement(n), selector)

(***************************************************************************)
(* Manifests: sequences of entries in insertion order.  read is a shortcut *)
(* string, "fn" for a custom function, Undefined when absent; watch is an  *)
(* event name or Undefined; write is a shortcut string or Undefined.       *)
(***************************************************************************)
Entry(label, selector, read, watch) ==
  [label |-> label, selector |-> selector, read |-> read, watch |-> watch,
   write |-> Undefined]

\* An entry for collect() and apply(): no watch, and a write directive.
WEntry(label, selector, read, write) ==
  [label |-> label, selector |-> selector, read |-> read, watch |-> Undefined,
   write |-> write]

FormManifest ==
  <<Entry("a", "#a", "value", Undefined),
    Entry("k", "#b", "checked", Undefined),
    Entry("q", "#b", "value", "change"),
    Entry("sortDir", "#c", "attr:data-x", Undefined),
    Entry("filter", "#c", "data:x", Undefined),
    Entry("labelText", "#c", "text", Undefined),
    Entry("theme", "body", "attr:data-x", Undefined)>>

CustomManifest == <<Entry("custom", "body", "fn", Undefined)>>

Manifests == {FormManifest, CustomManifest}

EventTypes == {"input", "change"}

Sessions == {"s1", "s2"}
SessionOrder == <<"s1", "s2">>
OnFns == {"f1", "f2"}

VARIABLES
  dom,               \* Cells -> Values: the properties and attributes read
  sharedObserver,    \* 0 (null) or the id of the MutationObserver
  created,           \* how many MutationObservers have been constructed
  records,           \* the observer's queue of undelivered MutationRecords
  observerCallbacks, \* the Set, in insertion order
  onCallbacks,       \* the Set, in insertion order
  onHandles,         \* the on() callbacks whose unsubscribe function exists
  listeners,         \* body's event listener list, in registration order
  status,            \* per session: "none", "active", "cancelled"
  manifest,          \* per session: the manifest observe() was given
  pending,           \* per session: 0 (null) or the frame request id
  rafQueue,          \* the document's list of animation frame callbacks
  running,           \* the callbacks of the frame under way, not yet run
  trig,              \* history: triggers of the session since its last flush
  last,              \* history: the step just taken and what it called
  callback,          \* per session: the callback observe() was given
  present,           \* the elements attached to the document, in document order
  storage,           \* localStorage: the item under CACHE_KEY, Null when absent
  now,               \* Date.now()
  sent,              \* history: the request of the last send() since the last
                     \* clearCache(), Null when there is none
  attrs,             \* the dx-manifest and dx-cache attributes of the elements
  activeObservers,   \* the extension's Map: element -> session, Null when absent
  faults,            \* history: the frame callbacks of the session that threw
  subs,              \* history: per on() callback, the unsubscribe functions on()
                     \* returned for it that were not called yet
  seen               \* history: the subscribers there were when the first of the
                     \* waiting records was queued

vars == <<dom, sharedObserver, created, records, observerCallbacks, onCallbacks,
          onHandles, listeners, status, manifest, pending, rafQueue, running,
          trig, last, callback, present, storage, now, sent, attrs, activeObservers, faults, subs, seen>>

\* What observe(), on() and the host's steps neither read nor write, save for
\* the document's elements, which they read, and the histories of faults and
\* of subscriptions, which only the specifications about them write.
extVars == <<present, storage, now, sent, attrs, activeObservers, faults, subs, seen>>

\* The program's own state and the host's, without the history variables.
progVars == <<dom, sharedObserver, created, records, observerCallbacks, onCallbacks,
              onHandles, listeners, status, manifest, pending, rafQueue, running>>

\* What the step just taken called.  op: "event" (an event whose handlers
\* called scheduleCallback), "deliver", "flush", "cancel", "setAttribute", or
\* "idle" for any other step; s: its session; type: of the event (for a cancel,
\* "first" or "again"); target: of the attribute write; fired: the entries
\* <<session, index>> whose trigger called scheduleCallback; invoked: the
\* subscribers a delivery called; snap: the argument of the callback; n: the
\* triggers the flush answers (for a cancel, 1 when it revoked a pending flush;
\* for a delivery, the records of the batch);
\* args: the arguments of the call the step is; calls: the host functions the
\* step called, in order, with their arguments; ret: what the call returned;
\* threw: whether the step ended with an exception leaving the module's code.
Label(op, s, type, target, fired, invoked, snap, n) ==
  [op |-> op, s |-> s, type |-> type, target |-> target, fired |-> fired,
   invoked |-> invoked, snap |-> snap, n |-> n, args |-> <<>>, calls |-> <<>>,
   ret |-> Undefined, threw |-> FALSE]

Idle == Label("idle", "", "", "", {}, <<>>, <<>>, 0)

\* The label of a call of an exported function other than observe() and on().
CallLabel(op, args, calls, ret) ==
  [Idle EXCEPT !.op = op, !.args = args, !.calls = calls, !.ret = ret]

(***************************************************************************)
(* parseRead and collect                                                   *)
(***************************************************************************)
\* document.querySelectorAll(selector): the attached elements, in document order.
QuerySelectorAll(selector) ==
  SelectSeq(present, LAMBDA n : Matches(n, selector))

Prop(n, p) ==
  IF <<n, p>> \in DOMAIN dom THEN dom[<<n, p>>]
  ELSE IF <<n, p>> \in DOMAIN Fixed THEN Fixed[<<n, p>>]
  ELSE Undefined

\* el.getAttribute(name); the attribute data-x is the cell "@data-x".
GetAttribute(n, attr) == IF <<n, attr>> \in DOMAIN dom THEN dom[<<n, attr>>] ELSE Null

\* The extractor parseRead(read) applied to element n.
ParseRead(read, n) ==
  CASE read = "fn" -> GetAttribute(n, "@data-x")
    [] read = "value" -> Prop(n, "value")
    [] read = "checked" -> Prop(n, "checked")
    [] read = "text" -> Prop(n, "textContent")
    [] read = "attr:data-x" -> GetAttribute(n, "@data-x")
    [] read = "data:x" -> Prop(n, "@data-x")

\* A collect() that reads the first matching element only (querySelector).
CollectEntryFirstMatch(config) ==
  LET elements == QuerySelectorAll(config.selector)
      values == [i \in 1..Len(elements) |-> ParseRead(config.read, elements[i])]
  IN  [label |-> config.label,
       shape |-> IF Len(elements) = 0 THEN "null" ELSE "single",
       values |-> values,
       value |-> IF Len(elements) = 0 THEN Null ELSE values[1]]

\* state[label] of one entry: value is what is stored (an array is a sequence),
\* shape the branch taken, values what the extractor gave for each element.
CollectEntry(config) ==
  LET elements == QuerySelectorAll(config.selector)
      values == [i \in 1..Len(elements) |-> ParseRead(config.read, elements[i])]
  IN  [label |-> config.label,
       shape |-> IF Len(elements) = 0 THEN "null"
                 ELSE IF Len(elements) = 1 THEN "single" ELSE "array",
       values |-> values,
       value |-> IF Len(elements) = 0 THEN Null
                 ELSE IF Len(elements) = 1 THEN values[1] ELSE values]

Readable(config) == config.selector # Undefined /\ config.read # Undefined

RECURSIVE CollectFrom(_, _)
CollectFrom(m, i) ==
  IF i > Len(m) THEN <<>>
  ELSE (IF Readable(m[i]) THEN <<CollectEntry(m[i])>> ELSE <<>>) \o CollectFrom(m, i + 1)

\* collect() returning after the first entry.
CollectFirstEntry(m) == CollectFrom(SubSeq(m, 1, 1), 1)

Collect(m) == CollectFrom(m, 1)

(***************************************************************************)
(* The shared MutationObserver                                             *)
(***************************************************************************)
\* The options of sharedObserver.observe(document.body, ...).
ObserveOptions ==
  [childList |-> TRUE, subtree |-> FALSE, attributes |-> TRUE, characterData |-> TRUE]

\* Whether the host queues a record of this type for a change of node n.
Observed(n, type) ==
  /\ sharedObserver # 0
  /\ ObserveOptions[type]
  /\ \/ n = "body"
     \/ ObserveOptions.subtree /\ Closest(ParentElement(n), "body") # Null

\* ensureObserver() without its early return.
EnsureObserverAlways(o) == <<o[2] + 1, o[2] + 1>>

\* ensureObserver() on the pair <<sharedObserver, created>>.
EnsureObserver(o) ==
  IF o[1] # 0 THEN o ELSE <<o[2] + 1, o[2] + 1>>

\* An array push in the place of Set.prototype.add.
SetAddAgain(set, x) == Append(set, x)

\* Set.prototype.add and Set.prototype.delete on an insertion-ordered Set.
SetAdd(set, x) ==
  IF \E i \in 1..Len(set) : set[i] = x THEN set ELSE Append(set, x)

\* Set.prototype.clear in the place of delete.
SetClear(set, x) == <<>>

SetDelete(set, x) == SelectSeq(set, LAMBDA y : y # x)

(***************************************************************************)
(* getWatchEvent and the batching scheduler of one session                 *)
(***************************************************************************)
\* getWatchEvent() without the watch override.
GetWatchEventNoOverride(read, watchOverride) ==
  IF read = "fn" THEN Null
  ELSE IF read = "value" THEN "input"
  ELSE IF read = "checked" THEN "change"
  ELSE Null

GetWatchEvent(read, watchOverride) ==
  IF watchOverride # Undefined THEN watchOverride
  ELSE IF read = "fn" THEN Null
  ELSE IF read = "value" THEN "input"
  ELSE IF read = "checked" THEN "change"
  ELSE Null

\* The handles some live reference still holds.
HandlesOf(sch) ==
  {sch.raf[i].h : i \in 1..Len(sch.raf)} \cup {running[i].h : i \in 1..Len(running)}
    \cup {sch.pending[s] : s \in Sessions}

\* requestAnimationFrame's return value: a positive id no live reference holds
\* (ids are only compared for equality and tested for truthiness).
FreshHandle(sch) ==
  CHOOSE h \in 1..(Cardinality(HandlesOf(sch)) + 1) :
    /\ h \notin HandlesOf(sch)
    /\ \A g \in 1..(h - 1) : g \in HandlesOf(sch)

\* scheduleCallback() without the pending test: one frame request per trigger.
ScheduleCallbackNoGuard(sch, s) ==
  [sch EXCEPT !.trig[s] = IF @ < MaxTrig THEN @ + 1 ELSE @,
              !.pending[s] = FreshHandle(sch),
              !.raf = Append(@, [h |-> FreshHandle(sch), s |-> s])]

\* scheduleCallback() of session s, on sch = [pending, raf, trig].
ScheduleCallback(sch, s) ==
  LET counted == [sch EXCEPT !.trig[s] = IF @ < MaxTrig THEN @ + 1 ELSE @]
  IN  IF sch.pending[s] # 0 THEN counted
      ELSE [counted EXCEPT !.pending[s] = FreshHandle(sch),
                           !.raf = Append(@, [h |-> FreshHandle(sch), s |-> s])]

\* A trigger that schedules every live session, not only the ones it fired for.
ScheduleEveryLiveSession(sch, ss) ==
  LET each(acc, s) == IF status[s] = "active" THEN ScheduleCallback(acc, s) ELSE acc
  IN  IF ss = <<>> THEN sch ELSE each(each(sch, "s1"), "s2")

RECURSIVE ScheduleAll(_, _)
ScheduleAll(sch, ss) ==
  IF ss = <<>> THEN sch ELSE ScheduleAll(ScheduleCallback(sch, Head(ss)), Tail(ss))

Sched == [pending |-> pending, raf |-> rafQueue, trig |-> trig]

\* An unsubscribe that leaves the frame request in place.
CancelAnimationFrameNoop(list, h) == list

\* cancelAnimationFrame(h): the request leaves the list, also in a frame under way.
CancelAnimationFrame(list, h) == SelectSeq(list, LAMBDA r : r.h # h)

\* The module as loaded and the host before any call.
InitModule ==
  /\ sharedObserver = 0
  /\ created = 0
  /\ records = <<>>
  /\ observerCallbacks = <<>>
  /\ onCallbacks = <<>>
  /\ onHandles = {}
  /\ listeners = <<>>
  /\ status = [s \in Sessions |-> "none"]
  /\ manifest = [s \in Sessions |-> <<>>]
  /\ pending = [s \in Sessions |-> 0]
  /\ rafQueue = <<>>
  /\ running = <<>>
  /\ trig = [s \in Sessions |-> 0]
  /\ last = Idle
  /\ callback = [s \in Sessions |-> Null]

InitCore ==
  /\ dom = [c \in Cells |-> "x0"]
  /\ InitModule

(***************************************************************************)
(* JSON texts and localStorage.  A text is a record: has is FALSE for the  *)
(* null getItem returns when the key is absent, valid tells whether        *)
(* JSON.parse accepts it, tree is what it parses to.                       *)
(***************************************************************************)
NoItem == [has |-> FALSE, valid |-> FALSE, tree |-> <<>>]

JsonText(tree) == [has |-> TRUE, valid |-> TRUE, tree |-> tree]

\* A text that JSON.parse rejects.
Malformed == [has |-> TRUE, valid |-> FALSE, tree |-> <<>>]

\* JSON.stringify of one property of a state object: undefined in an array
\* becomes null, and null is null whichever branch of collect() stored it.
JsonItem(it) ==
  IF it.shape = "array"
  THEN LET vs == [j \in 1..Len(it.values) |->
                    IF it.values[j] = Undefined THEN Null ELSE it.values[j]]
       IN  [label |-> it.label, shape |-> "array", values |-> vs, value |-> vs]
  ELSE IF it.shape = "null" \/ it.value = Null
  THEN [label |-> it.label, shape |-> "null", values |-> <<>>, value |-> Null]
  ELSE [label |-> it.label, shape |-> "single", values |-> <<it.value>>,
        value |-> it.value]

\* JSON.stringify of a state object, as the tree JSON.parse gives back: a
\* property whose value is undefined is left out.
JsonState(state) ==
  LET kept == SelectSeq(state, LAMBDA it :
                it.shape = "array" \/ it.shape = "null" \/ it.value # Undefined)
  IN  [k \in 1..Len(kept) |-> JsonItem(kept[k])]

\* What a text in the cache parses to: null, or an object whose url, state and
\* ts may be missing (url is then Undefined).
NullTree ==
  [kind |-> "null", url |-> Undefined, hasState |-> FALSE, state |-> <<>>,
   hasTs |-> FALSE, ts |-> 0]

\* JSON.stringify({url, state, ts}), parsed.
CacheRecord(url, state, ts) ==
  [kind |-> "object", url |-> url, hasState |-> TRUE, state |-> JsonState(state),
   hasTs |-> TRUE, ts |-> ts]

\* The history of send() and clearCache(): kind is "initial" before either,
\* "sent" after a send() and "cleared" after a clearCache(); stored tells
\* whether the call's localStorage write or removal went through.
NoSend(kind, stored) ==
  [kind |-> kind, stored |-> stored, url |-> "", json |-> <<>>, body |-> NoItem, ts |-> 0]

\* No element carries a dx-manifest or a dx-cache attribute.
NoAttrs == [n \in Nodes |-> [manifest |-> Null, cache |-> Null]]

\* The page as loaded: every element attached, nothing cached, no extension.
Init ==
  /\ InitCore
  /\ present = DocOrder
  /\ storage = NoItem
  /\ now = 0
  /\ sent = NoSend("initial", TRUE)
  /\ attrs = NoAttrs
  /\ activeObservers = [n \in Nodes |-> Null]
  /\ faults = [s \in Sessions |-> 0]
  /\ subs = [f \in OnFns |-> 0]
  /\ seen = <<>>

(***************************************************************************)
(* observe(manifest, callback)                                             *)
(***************************************************************************)
Indexes(m) == [i \in 1..Len(m) |-> i]

EventOf(config) == GetWatchEvent(config.read, config.watch)

\* The delegated handlers the setup loop registers on document.body, one per
\* entry that has an event type.
DelegatedOf(s, m) ==
  LET idx == SelectSeq(Indexes(m), LAMBDA i : EventOf(m[i]) # Null)
  IN  [k \in 1..Len(idx) |-> [type |-> EventOf(m[idx[k]]), s |-> s, i |-> idx[k]]]

\* The callback of a caller the model does not look into.
UserCallback == "callback"

\* An observe() that delivers a first snapshot as it binds.
ObserveCallsCollect(s, m) == Label("flush", s, "", "", {}, <<>>, Collect(m), 0)

\* What the body of observe() calls besides registering: neither collect() nor
\* the callback, which only the frame callback of scheduleCallback calls.
ObserveCalls(s, m) == Idle

\* The call observe(m, cb) and its effects on the module's state and the host's.
ObserveCall(m, cb) ==
  \E k \in 1..Len(SessionOrder) :
    LET s == SessionOrder[k]
        o == EnsureObserver(<<sharedObserver, created>>)
    IN  /\ status[s] = "none"
        /\ \A j \in 1..(k - 1) : status[SessionOrder[j]] # "none"
        /\ status' = [status EXCEPT ![s] = "active"]
        /\ manifest' = [manifest EXCEPT ![s] = m]
        /\ listeners' = listeners \o DelegatedOf(s, m)
        /\ sharedObserver' = o[1]
        /\ created' = o[2]
        /\ observerCallbacks' = SetAdd(observerCallbacks, s)
        /\ callback' = [callback EXCEPT ![s] = cb]
        /\ last' = ObserveCalls(s, m)
        /\ UNCHANGED <<dom, records, onCallbacks, onHandles, pending, rafQueue,
                       running, trig>>

Observe(m) == ObserveCall(m, UserCallback) /\ UNCHANGED extVars

\* removeEventListener matching on the event type alone.
RemoveEventListenerByType(list, type, s, i) == SelectSeq(list, LAMBDA l : l.type # type)

\* removeEventListener(type, handler), handler being the closure of entry i of
\* session s.
RemoveEventListener(list, type, s, i) ==
  SelectSeq(list, LAMBDA l : ~(l.type = type /\ l.s = s /\ l.i = i))

RECURSIVE RunListenerCleanups(_, _, _)
RunListenerCleanups(list, s, regs) ==
  IF regs = <<>> THEN list
  ELSE RunListenerCleanups(RemoveEventListener(list, Head(regs).type, s, Head(regs).i),
                           s, Tail(regs))

\* The cleanups array of session s, less the mutation handler's: one removal
\* per listener the setup loop registered, each a no-op once it has run.
Cleanups(s) == SelectSeq(listeners, LAMBDA l : l.s = s)

\* The function observe() returned, called for session s.
UnsubscribeCall(s) ==
  /\ status[s] # "none"
  /\ pending' = [pending EXCEPT ![s] = 0]
  /\ rafQueue' = IF pending[s] # 0 THEN CancelAnimationFrame(rafQueue, pending[s])
                 ELSE rafQueue
  /\ running' = IF pending[s] # 0 THEN CancelAnimationFrame(running, pending[s])
                ELSE running
  /\ listeners' = RunListenerCleanups(listeners, s, Cleanups(s))
  /\ observerCallbacks' = SetDelete(observerCallbacks, s)
  /\ status' = [status EXCEPT ![s] = "cancelled"]
  /\ trig' = [trig EXCEPT ![s] = 0]
  /\ last' = Label("cancel", s, IF status[s] = "cancelled" THEN "again" ELSE "first",
                   "", {}, <<>>, <<>>, IF pending[s] # 0 THEN 1 ELSE 0)
  /\ UNCHANGED <<dom, sharedObserver, created, records, onCallbacks, onHandles, manifest,
                 callback>>

Unsubscribe(s) == UnsubscribeCall(s) /\ UNCHANGED extVars

(***************************************************************************)
(* on(callback) and the function it returns                                *)
(***************************************************************************)
\* The callbacks are interchangeable: the first one ever passed to on() is f1.
OnCall(f) ==
  LET o == EnsureObserver(<<sharedObserver, created>>)
  IN  /\ f = "f1" \/ "f1" \in onHandles
      /\ sharedObserver' = o[1]
      /\ created' = o[2]
      /\ onCallbacks' = SetAdd(onCallbacks, f)
      /\ observerCallbacks' = SetAdd(observerCallbacks, f)
      /\ onHandles' = onHandles \cup {f}
      /\ last' = Idle
      /\ UNCHANGED <<dom, records, listeners, status, manifest, pending, rafQueue,
                     running, trig, callback>>

On(f) == OnCall(f) /\ UNCHANGED extVars

\* An unsubscribe that deletes from onCallbacks alone.
OnUnsubscribeOnCallbacksOnly(f) ==
  /\ f \in onHandles
  /\ onCallbacks' = SetDelete(onCallbacks, f)
  /\ last' = Idle
  /\ UNCHANGED <<dom, sharedObserver, created, records, observerCallbacks, onHandles,
                 listeners, status, manifest, pending, rafQueue, running, trig, callback>>

\* The function on(f) returned.
OnUnsubscribeCall(f) ==
  /\ f \in onHandles
  /\ onCallbacks' = SetDelete(onCallbacks, f)
  /\ observerCallbacks' = SetDelete(observerCallbacks, f)
  /\ last' = Idle
  /\ UNCHANGED <<dom, sharedObserver, created, records, onHandles, listeners, status,
                 manifest, pending, rafQueue, running, trig, callback>>

OnUnsubscribe(f) == OnUnsubscribeCall(f) /\ UNCHANGED extVars

(***************************************************************************)
(* The page's script and the user: property writes, attribute writes and   *)
(* events.                                                                 *)
(***************************************************************************)
\* el.value = v: no event and no mutation record.
SetValue(n, v) ==
  /\ <<n, "value">> \in Cells
  /\ dom[<<n, "value">>] # v
  /\ dom' = [dom EXCEPT ![<<n, "value">>] = v]
  /\ last' = Idle
  /\ UNCHANGED <<callback, extVars>>
  /\ UNCHANGED <<sharedObserver, created, records, observerCallbacks, onCallbacks,
                 onHandles, listeners, status, manifest, pending, rafQueue, running, trig>>

\* el.setAttribute(name, v), name being data-x on c and class on body: the host
\* queues a record when it observes n, whether or not the value changes.  At
\* most max records wait for delivery.
SetAttributeCall(n, v, max) ==
  /\ n \in {"c", "body"}
  /\ Observed(n, "attributes") => Len(records) < max
  /\ dom' = IF <<n, "@data-x">> \in Cells THEN [dom EXCEPT ![<<n, "@data-x">>] = v]
            ELSE dom
  /\ records' = IF Observed(n, "attributes")
                THEN Append(records, [type |-> "attributes", target |-> n])
                ELSE records
  /\ last' = Label("setAttribute", "", "", n, {}, <<>>, <<>>, 0)
  /\ UNCHANGED <<sharedObserver, created, observerCallbacks, onCallbacks, onHandles,
                 listeners, status, manifest, pending, rafQueue, running, trig, callback>>

SetAttributeWithin(n, v, max) == SetAttributeCall(n, v, max) /\ UNCHANGED extVars

SetAttribute(n, v) == SetAttributeWithin(n, v, MaxRecords)

\* A delegated handler that accepts a target inside a matching element.
HandlerFiresClosest(l, target) == Closest(target, manifest[l.s][l.i].selector) # Null

\* The delegated handler of a registration, run for an event on target: whether
\* it calls scheduleCallback.  The selector is the one the entry had when the
\* handler was created; the model never changes the selector of an entry.
HandlerFires(l, target) == Matches(target, manifest[l.s][l.i].selector)

\* target.dispatchEvent(new Event(type, {bubbles})): body's listeners of that
\* type run in registration order when the event reaches body.
DispatchEvent(type, target, bubbles) ==
  LET reached == IF bubbles \/ target = "body"
                 THEN SelectSeq(listeners, LAMBDA l : l.type = type) ELSE <<>>
      firing == SelectSeq(reached, LAMBDA l : HandlerFires(l, target))
      sch == ScheduleAll(Sched, [k \in 1..Len(firing) |-> firing[k].s])
  IN  /\ pending' = sch.pending
      /\ rafQueue' = sch.raf
      /\ trig' = sch.trig
      /\ last' = IF firing = <<>> THEN Idle
                 ELSE Label("event", "", type, target,
                            {<<firing[k].s, firing[k].i>> : k \in 1..Len(firing)},
                            <<>>, <<>>, 0)
      /\ UNCHANGED <<callback, extVars>>
      /\ UNCHANGED <<dom, sharedObserver, created, records, observerCallbacks,
                     onCallbacks, onHandles, listeners, status, manifest, running>>

(***************************************************************************)
(* Delivery of a batch of records: the MutationObserver callback           *)
(***************************************************************************)
\* The indexes of the entries mutationHandler puts in watchedSelectors.
WatchedSelectors(m) == SelectSeq(Indexes(m), LAMBDA i : EventOf(m[i]) = Null)

\* A test of the changed node alone.
RelevantSelfOnly(target, selector) == Matches(target, selector)

\* target.matches?.(selector) || target.parentElement?.closest?.(selector)
Relevant(target, selector) ==
  Matches(target, selector) \/ Closest(ParentElement(target), selector) # Null

\* The entry for which mutationHandler calls scheduleCallback, 0 when it
\* returns without calling it.
RECURSIVE MutationHandler(_, _)
MutationHandler(m, mutations) ==
  IF mutations = <<>> THEN 0
  ELSE LET target == Head(mutations).target
           hits == SelectSeq(WatchedSelectors(m),
                             LAMBDA i : Relevant(target, m[i].selector))
       IN  IF NodeType(target) # 1 THEN MutationHandler(m, Tail(mutations))
           ELSE IF hits # <<>> THEN Head(hits)
           ELSE MutationHandler(m, Tail(mutations))

\* A loop that returns after its first callback.
FanOutFirst(callbacks) == SubSeq(callbacks, 1, 1)

\* A loop over the subscribers there were when the batch's first record was
\* queued.
FanOutAtMutationTime(callbacks) == seen

\* The callbacks the observer's loop calls, in order.
FanOut(callbacks) == callbacks

Deliver ==
  LET called == FanOut(observerCallbacks)
      firing == SelectSeq(called, LAMBDA c :
                  c \in Sessions /\ MutationHandler(manifest[c], records) # 0)
      sch == ScheduleAll(Sched, firing)
  IN  /\ records # <<>>
      /\ records' = <<>>
      /\ pending' = sch.pending
      /\ rafQueue' = sch.raf
      /\ trig' = sch.trig
      /\ last' = Label("deliver", "", "", "",
                       {<<firing[k], MutationHandler(manifest[firing[k]], records)>> :
                          k \in 1..Len(firing)},
                       called, <<>>, Len(records))
      /\ UNCHANGED <<callback, extVars>>
      /\ UNCHANGED <<dom, sharedObserver, created, observerCallbacks, onCallbacks,
                     onHandles, listeners, status, manifest, running>>

(***************************************************************************)
(* Animation frames                                                        *)
(***************************************************************************)
\* The host starts a frame: the callbacks requested so far are the ones it runs.
BeginFrame ==
  /\ running = <<>>
  /\ rafQueue # <<>>
  /\ running' = rafQueue
  /\ rafQueue' = <<>>
  /\ last' = Idle
  /\ UNCHANGED <<callback, extVars>>
  /\ UNCHANGED <<dom, sharedObserver, created, records, observerCallbacks, onCallbacks,
                 onHandles, listeners, status, manifest, pending, trig>>

\* The frame callback without pending = null.
FlushKeepsPending(s) ==
  /\ pending' = pending
  /\ trig' = [trig EXCEPT ![s] = 0]
  /\ last' = Label("flush", s, "", "", {}, <<>>, Collect(manifest[s]), trig[s])

\* What the callback of a session does with the state it is given: the
\* extension's callback for element cb dispatches dx:change on it, which
\* bubbles; no manifest of the model watches that event.  A caller's callback
\* is opaque.
CallbackCalls(cb, state) ==
  IF cb \in Nodes
  THEN <<[fn |-> "dispatchEvent", target |-> cb,
          payload |-> [type |-> "dx:change", bubbles |-> TRUE,
                       detail |-> [state |-> state]],
          threw |-> FALSE]>>
  ELSE <<>>

\* The frame callback of scheduleCallback: pending = null; callback(collect(manifest)).
Flush(s) ==
  /\ pending' = [pending EXCEPT ![s] = 0]
  /\ trig' = [trig EXCEPT ![s] = 0]
  /\ last' = [Label("flush", s, "", "", {}, <<>>, Collect(manifest[s]), trig[s])
                EXCEPT !.calls = CallbackCalls(callback[s], Collect(manifest[s]))]

RunCallback ==
  /\ running # <<>>
  /\ running' = Tail(running)
  /\ Flush(Head(running).s)
  /\ UNCHANGED <<callback, extVars>>
  /\ UNCHANGED <<dom, sharedObserver, created, records, observerCallbacks, onCallbacks,
                 onHandles, listeners, status, manifest, rafQueue>>

Next ==
  \/ \E m \in Manifests : Observe(m)
  \/ \E s \in Sessions : Unsubscribe(s)
  \/ \E f \in OnFns : On(f)
  \/ \E f \in OnFns : OnUnsubscribe(f)
  \/ \E n \in Nodes, v \in Values : SetValue(n, v)
  \/ \E n \in Nodes, v \in Values : SetAttribute(n, v)
  \/ \E type \in EventTypes, target \in Nodes \ {"html"}, bubbles \in BOOLEAN :
       DispatchEvent(type, target, bubbles)
  \/ Deliver
  \/ BeginFrame
  \/ RunCallback

Spec == Init /\ [][Next]_vars

\* The scheduling core alone: on() subscribers take no part in scheduling a
\* flush, and the value of an input decides no step.
LiveNext ==
  \/ \E m \in Manifests : Observe(m)
  \/ \E s \in Sessions : Unsubscribe(s)
  \/ \E n \in Nodes, v \in Values : SetAttribute(n, v)
  \/ \E type \in EventTypes, target \in Nodes \ {"html"}, bubbles \in BOOLEAN :
       DispatchEvent(type, target, bubbles)
  \/ Deliver
  \/ BeginFrame
  \/ RunCallback

\* The host delivers queued records, starts frames and runs every callback of
\* a frame.
LiveSpec ==
  /\ Init
  /\ [][LiveNext]_vars
  /\ WF_vars(Deliver)
  /\ WF_vars(BeginFrame)
  /\ WF_vars(RunCallback)

(***************************************************************************)
(* Trigger paths: one session whose manifest has an event entry on body, a *)
(* mutation entry on html, a text entry on c, or only entries with neither *)
(* read nor write; the caller may assign the watch of an entry of the      *)
(* manifest it passed, and the text node inside c may change.              *)
(***************************************************************************)
\* Most records in one batch of the trigger-path specification.
MaxBatch == 2

WatchManifest ==
  <<Entry("a", "#a", "value", Undefined),
    Entry("theme", "body", "attr:data-x", "change"),
    Entry("root", "html", "attr:data-x", Undefined),
    Entry("labelText", "#c", "text", Undefined)>>

InertManifest ==
  <<Entry("inert", "body", Undefined, Undefined),
    Entry("bare", "#a", Undefined, Undefined)>>

TriggerManifests == {WatchManifest, InertManifest}

\* manifest[label].watch = w, or delete manifest[label].watch, by the caller
\* that holds the manifest object of a live session.
SetWatch(s, i, w) ==
  /\ status[s] = "active"
  /\ i \in 1..Len(manifest[s])
  /\ manifest[s][i].watch # w
  /\ manifest' = [manifest EXCEPT ![s][i].watch = w]
  /\ last' = Idle
  /\ UNCHANGED <<callback, extVars>>
  /\ UNCHANGED <<dom, sharedObserver, created, records, observerCallbacks, onCallbacks,
                 onHandles, listeners, status, pending, rafQueue, running, trig>>

\* textNode.data = v for the text node inside c: c's textContent follows, and
\* the host queues a characterData record when it observes the node.
SetData(n, v) ==
  /\ n \in TextNodes
  /\ Observed(n, "characterData") => Len(records) < MaxBatch
  /\ dom' = [dom EXCEPT ![<<ParentElement(n), "textContent">>] = v]
  /\ records' = IF Observed(n, "characterData")
                THEN Append(records, [type |-> "characterData", target |-> n])
                ELSE records
  /\ last' = Label("setData", "", "", n, {}, <<>>, <<>>, 0)
  /\ UNCHANGED <<callback, extVars>>
  /\ UNCHANGED <<sharedObserver, created, observerCallbacks, onCallbacks, onHandles,
                 listeners, status, manifest, pending, rafQueue, running, trig>>

\* The page as loaded, c's text being a cell.
TriggerInit ==
  /\ dom = [c \in Cells \cup {<<"c", "textContent">>} |-> "x0"]
  /\ InitModule
  /\ present = DocOrder
  /\ storage = NoItem
  /\ now = 0
  /\ sent = NoSend("initial", TRUE)
  /\ attrs = NoAttrs
  /\ activeObservers = [n \in Nodes |-> Null]
  /\ faults = [s \in Sessions |-> 0]
  /\ subs = [f \in OnFns |-> 0]
  /\ seen = <<>>

\* The entries whose watch the caller assigns.
WatchIndexes == {1, 2, 3}

\* One observe() call; a second session is independent of the first.
TriggerNext ==
  \/ \E m \in TriggerManifests : (\A s \in Sessions : status[s] = "none") /\ Observe(m)
  \/ \E s \in Sessions : Unsubscribe(s)
  \/ \E s \in Sessions, i \in WatchIndexes, w \in {Undefined, "change"} : SetWatch(s, i, w)
  \/ \E v \in Values : SetAttributeWithin("body", v, MaxBatch)
  \/ \E n \in TextNodes, v \in Values : SetData(n, v)
  \/ \E type \in EventTypes, target \in Nodes \ {"html"}, bubbles \in BOOLEAN :
       DispatchEvent(type, target, bubbles)
  \/ Deliver
  \/ BeginFrame
  \/ RunCallback

TriggerSpec == TriggerInit /\ [][TriggerNext]_vars

(***************************************************************************)
(* Faults: a manifest with a read shortcut parseRead does not know, custom *)
(* read functions that may throw, and a callback that may throw.  The      *)
(* frame callback is                                                       *)
(*     () => { pending = null; callback(collect(manifest)); }              *)
(* and an exception leaves it for the host, which reports it and goes on   *)
(* with the next callback of the frame.                                    *)
(***************************************************************************)
\* Saturation point of the history counter faults.
MaxFaults == 1

ReadShortcuts == {"value", "checked", "text", "attr:data-x", "data:x"}

BadManifest ==
  <<Entry("a", "#a", "value", Undefined),
    Entry("bad", "body", "bogus", Undefined)>>

FaultManifests == {BadManifest, CustomManifest}

\* Whether parseRead(read) throws: a string that is no shortcut.
ParseReadThrows(read) == read # "fn" /\ read \notin ReadShortcuts

\* Whether collect(m) throws: parseRead does, for an entry that has a selector
\* and a read, or a custom extractor does (readerThrows) on an element it is
\* called for.
CollectThrows(m, readerThrows) ==
  \E i \in 1..Len(m) :
    /\ Readable(m[i])
    /\ \/ ParseReadThrows(m[i].read)
       \/ /\ readerThrows /\ m[i].read = "fn"
          /\ QuerySelectorAll(m[i].selector) # <<>>

\* A frame callback that catches what collect() throws and goes on to call the
\* callback with an empty state.
FrameCallsSwallow(m, readerThrows, callbackThrows) ==
  IF CollectThrows(m, readerThrows)
  THEN <<[fn |-> "collect", target |-> "", payload |-> <<>>, threw |-> FALSE],
         [fn |-> "callback", target |-> "", payload |-> <<>>, threw |-> callbackThrows]>>
  ELSE <<[fn |-> "collect", target |-> "", payload |-> Collect(m), threw |-> FALSE],
         [fn |-> "callback", target |-> "", payload |-> Collect(m),
          threw |-> callbackThrows]>>

\* The calls of callback(collect(manifest)): collect, whose payload is the state
\* it returned, and the callback with that state unless collect threw.
FrameCalls(m, readerThrows, callbackThrows) ==
  IF CollectThrows(m, readerThrows)
  THEN <<[fn |-> "collect", target |-> "", payload |-> <<>>, threw |-> TRUE]>>
  ELSE <<[fn |-> "collect", target |-> "", payload |-> Collect(m), threw |-> FALSE],
         [fn |-> "callback", target |-> "", payload |-> Collect(m),
          threw |-> callbackThrows]>>

\* A frame callback that clears pending after the callback has returned.
FaultyFlushClearsLast(s, calls) ==
  LET threw == calls[Len(calls)].threw
  IN  /\ pending' = IF threw THEN pending ELSE [pending EXCEPT ![s] = 0]
      /\ trig' = [trig EXCEPT ![s] = 0]
      /\ faults' = [faults EXCEPT ![s] = IF threw /\ @ < MaxFaults THEN @ + 1 ELSE @]
      /\ last' = [Label("flush", s, "", "", {}, <<>>, calls[1].payload, trig[s])
                    EXCEPT !.calls = calls, !.threw = threw]

\* The frame callback of session s making these calls: pending = null comes
\* first, so it is cleared whether or not a call throws.
FaultyFlush(s, calls) ==
  LET threw == calls[Len(calls)].threw
  IN  /\ pending' = [pending EXCEPT ![s] = 0]
      /\ trig' = [trig EXCEPT ![s] = 0]
      /\ faults' = [faults EXCEPT ![s] = IF threw /\ @ < MaxFaults THEN @ + 1 ELSE @]
      /\ last' = [Label("flush", s, "", "", {}, <<>>, calls[1].payload, trig[s])
                    EXCEPT !.calls = calls, !.threw = threw]

\* The host runs the next callback of the frame under way.
RunFaultyCallback(readerThrows, callbackThrows) ==
  /\ running # <<>>
  /\ running' = Tail(running)
  /\ FaultyFlush(Head(running).s,
                 FrameCalls(manifest[Head(running).s], readerThrows, callbackThrows))
  /\ UNCHANGED <<callback, present, storage, now, sent, attrs, activeObservers, subs, seen>>
  /\ UNCHANGED <<dom, sharedObserver, created, records, observerCallbacks, onCallbacks,
                 onHandles, listeners, status, manifest, rafQueue>>

\* collect(m) called by the page's script, which may throw.
CallFaultyCollect(m) ==
  /\ last' = [CallLabel("collect", <<m>>, <<>>, Undefined)
                EXCEPT !.threw = CollectThrows(m, FALSE)]
  /\ UNCHANGED <<progVars, trig, callback, extVars>>

\* One observe() call, as in the trigger-path specification.
FaultNext ==
  \/ \E m \in FaultManifests : (\A s \in Sessions : status[s] = "none") /\ Observe(m)
  \/ \E s \in Sessions : Unsubscribe(s)
  \/ \E m \in FaultManifests : CallFaultyCollect(m)
  \/ \E n \in Nodes, v \in Values : SetValue(n, v)
  \/ \E v \in Values : SetAttribute("body", v)
  \/ \E type \in EventTypes, target \in Nodes \ {"html"}, bubbles \in BOOLEAN :
       DispatchEvent(type, target, bubbles)
  \/ Deliver
  \/ BeginFrame
  \/ \E readerThrows, callbackThrows \in BOOLEAN :
       RunFaultyCallback(readerThrows, callbackThrows)

FaultSpec == Init /\ [][FaultNext]_vars

(***************************************************************************)
(* collect() and apply() called by the page's script, on a document whose  *)
(* elements come and go                                                    *)
(***************************************************************************)
\* The property or attribute a write shortcut assigns.
WriteKey(write) ==
  CASE write = "value" -> "value"
    [] write = "checked" -> "checked"
    [] write = "text" -> "textContent"
    [] write = "attr:data-x" -> "@data-x"
    [] write = "data:x" -> "@data-x"

\* String(v).  The values are atoms: null, undefined, the booleans "true" and
\* "false", and strings; a string spelled like one of those atoms is written
\* in quotes.
StringOf(v) ==
  CASE v = Null -> "'null'"
    [] v = Undefined -> "'undefined'"
    [] v = "true" -> "'true'"
    [] v = "false" -> "'false'"
    [] OTHER -> v

\* What the assignment or call of a writer stores for v: value and
\* textContent take null as the empty string, and textContent undefined too;
\* checked converts to a boolean; setAttribute and dataset convert to a string.
WriteValue(write, v) ==
  CASE write = "value" -> IF v = Null THEN "" ELSE StringOf(v)
    [] write = "checked" -> IF v \in {Null, Undefined, "false", ""} THEN "false" ELSE "true"
    [] write = "text" -> IF v \in {Null, Undefined} THEN "" ELSE StringOf(v)
    [] write = "attr:data-x" -> StringOf(v)
    [] write = "data:x" -> StringOf(v)

\* The writer parseWrite(write) applied to element n and value v, on the cells
\* d: the property is assigned, the attribute is set or created.
ParseWrite(write, d, n, v) ==
  (<<n, WriteKey(write)>> :> WriteValue(write, v)) @@ d

\* A loop that stops after the first element (querySelector).
RECURSIVE WriteFirst(_, _, _, _)
WriteFirst(d, write, elements, v) ==
  IF elements = <<>> THEN d ELSE ParseWrite(write, d, Head(elements), v)

\* for (const el of elements) writer(el, value)
RECURSIVE WriteAll(_, _, _, _)
WriteAll(d, write, elements, v) ==
  IF elements = <<>> THEN d
  ELSE WriteAll(ParseWrite(write, d, Head(elements), v), write, Tail(elements), v)

\* The loop of apply() from entry i on; state is a function from its keys.
RECURSIVE ApplyFrom(_, _, _, _)
ApplyFrom(m, state, i, d) ==
  IF i > Len(m) THEN d
  ELSE IF m[i].label \notin DOMAIN state THEN ApplyFrom(m, state, i + 1, d)
  ELSE IF m[i].write = Undefined THEN ApplyFrom(m, state, i + 1, d)
  ELSE ApplyFrom(m, state, i + 1,
                 WriteAll(d, m[i].write, QuerySelectorAll(m[i].selector),
                          state[m[i].label]))

Apply(m, state) == ApplyFrom(m, state, 1, dom)

PageManifest ==
  <<WEntry("one", "#a", "value", Undefined),
    WEntry("many", ".d", "attr:data-x", "attr:data-x"),
    WEntry("last", "#c", "data:x", "data:x"),
    WEntry("readOnly", "#b", "attr:data-x", Undefined),
    WEntry("writeOnly", "#b", Undefined, "data:x"),
    WEntry("noSelector", Undefined, "value", Undefined)>>

\* The state objects passed to apply(): every assignment of values to these keys.
StateKeySets ==
  {{}, {"many"}, {"last"}, {"many", "last", "writeOnly"}, {"readOnly", "extra"}}

StateInputs == UNION {[keys -> Values] : keys \in StateKeySets}

\* The elements the page's script detaches and attaches: the children of body.
Children == {"a", "b", "c"}

\* body.removeChild(n)
RemoveChild(n) ==
  /\ n \in Children
  /\ \E i \in 1..Len(present) : present[i] = n
  /\ Observed("body", "childList") => Len(records) < MaxRecords
  /\ present' = SelectSeq(present, LAMBDA x : x # n)
  /\ records' = IF Observed("body", "childList")
                THEN Append(records, [type |-> "childList", target |-> "body"])
                ELSE records
  /\ last' = Idle
  /\ UNCHANGED <<dom, sharedObserver, created, observerCallbacks, onCallbacks, onHandles,
                 listeners, status, manifest, pending, rafQueue, running, trig,
                 callback, storage, now, sent, attrs, activeObservers, faults, subs, seen>>

\* body.appendChild(n) of a detached element: it becomes body's last child.
AppendChild(n) ==
  /\ n \in Children
  /\ \A i \in 1..Len(present) : present[i] # n
  /\ Observed("body", "childList") => Len(records) < MaxRecords
  /\ present' = Append(present, n)
  /\ records' = IF Observed("body", "childList")
                THEN Append(records, [type |-> "childList", target |-> "body"])
                ELSE records
  /\ last' = Idle
  /\ UNCHANGED <<dom, sharedObserver, created, observerCallbacks, onCallbacks, onHandles,
                 listeners, status, manifest, pending, rafQueue, running, trig,
                 callback, storage, now, sent, attrs, activeObservers, faults, subs, seen>>

\* collect(m), called by the page's script.
CallCollect(m) ==
  /\ last' = CallLabel("collect", <<m>>, <<>>, Collect(m))
  /\ UNCHANGED <<progVars, trig, callback, extVars>>

\* apply(m, state), called by the page's script.
CallApply(m, state) ==
  /\ dom' = Apply(m, state)
  /\ last' = CallLabel("apply", <<m, state>>, <<>>, Undefined)
  /\ UNCHANGED <<sharedObserver, created, records, observerCallbacks, onCallbacks,
                 onHandles, listeners, status, manifest, pending, rafQueue, running,
                 trig, callback, extVars>>

PageNext ==
  \/ \E n \in Nodes : RemoveChild(n)
  \/ \E n \in Nodes : AppendChild(n)
  \/ \E n \in Nodes, v \in Values : SetValue(n, v)
  \/ CallCollect(PageManifest)
  \/ \E state \in StateInputs : CallApply(PageManifest, state)

PageSpec == Init /\ [][PageNext]_vars

(***************************************************************************)
(* send(), replay() and clearCache()                                       *)
(***************************************************************************)
CACHE_KEY == "domx:lastRequest"

CACHE_TTL == 5 * 60 * 1000

\* The latest time the model's clock reaches.
MaxNow == 600001

\* A call of a host function: its first argument, its second (or the value
\* written), and whether it threw.
HostCall(fn, target, payload, threw) ==
  [fn |-> fn, target |-> target, payload |-> payload, threw |-> threw]

NoOpts == <<>>

ContentType == [ContentType |-> "application/json"]

\* The second argument of fetch in send(): opts.headers spread after
\* Content-Type, and opts spread after method, headers and body.
SendInit(state, opts) ==
  LET headers == IF "headers" \in DOMAIN opts THEN opts.headers @@ ContentType
                 ELSE ContentType
  IN  opts @@ [method |-> "POST", headers |-> headers,
               body |-> JsonText(JsonState(state))]

\* A send() without the try around localStorage.setItem.
SendCallsNoCatch(url, state, opts, ts, threw) ==
  <<HostCall("setItem", CACHE_KEY, JsonText(CacheRecord(url, state, ts)), threw)>>
    \o (IF threw THEN <<>>
        ELSE <<HostCall("fetch", url, SendInit(state, opts), FALSE)>>)

\* The host calls of send(), in order; threw tells whether setItem throws.
SendCalls(url, state, opts, ts, threw) ==
  <<HostCall("setItem", CACHE_KEY, JsonText(CacheRecord(url, state, ts)), threw),
    HostCall("fetch", url, SendInit(state, opts), FALSE)>>

\* localStorage.setItem(key, text): the item is replaced unless the call throws.
SetItem(item, text, threw) == IF threw THEN item ELSE text

\* A removeItem that removes nothing.
RemoveItemNoop(item, threw) == item

\* localStorage.removeItem(key)
RemoveItem(item, threw) == IF threw THEN item ELSE NoItem

\* send(url, m, opts); the promise it returns resolves to fetch's response.
Send(url, m, opts, threw) ==
  LET state == Collect(m)
      calls == SendCalls(url, state, opts, now, threw)
      fetched == SelectSeq(calls, LAMBDA c : c.fn = "fetch")
  IN  /\ storage' = SetItem(storage, calls[1].payload, threw)
      /\ sent' = IF fetched = <<>> THEN sent
                 ELSE [kind |-> "sent", stored |-> ~threw, url |-> url,
                       json |-> JsonState(state), body |-> fetched[1].payload.body,
                       ts |-> now]
      /\ last' = [CallLabel("send", <<url, m, opts>>, calls,
                            IF fetched = <<>> THEN "throws" ELSE "response")
                    EXCEPT !.snap = state]
      /\ UNCHANGED <<progVars, trig, callback, present, now, attrs, activeObservers, faults, subs, seen>>

\* Date.now() - cached.ts > CACHE_TTL with the boundary on the wrong side.
ExpiredAtTtl(tree, t) == tree.hasTs /\ t - tree.ts >= CACHE_TTL

\* Date.now() - cached.ts > CACHE_TTL; without ts the difference is NaN, which
\* is greater than nothing.
Expired(tree, t) == tree.hasTs /\ t - tree.ts > CACHE_TTL

\* A value that is falsy: undefined, null or the empty string.
Falsy(v) == v \in {Undefined, Null, ""}

\* replay(); threw tells whether localStorage.getItem throws.
Replay(threw) ==
  LET caught == threw \/ (storage.has /\ ~storage.valid)
      cached == IF caught \/ ~storage.has THEN NullTree ELSE storage.tree
      usable == /\ ~caught
                /\ cached.kind = "object"
                /\ ~Falsy(cached.url)
                /\ cached.hasState
      fetches == usable /\ ~Expired(cached, now)
      init == [method |-> "POST", headers |-> ContentType,
               body |-> JsonText(JsonState(cached.state))]
  IN  /\ last' = CallLabel("replay", <<>>,
                           <<HostCall("getItem", CACHE_KEY, NoItem, threw)>>
                             \o (IF fetches
                                 THEN <<HostCall("fetch", cached.url, init, FALSE)>>
                                 ELSE <<>>),
                           IF fetches THEN "response" ELSE Null)
      /\ UNCHANGED <<progVars, trig, callback, extVars>>

\* clearCache(); threw tells whether localStorage.removeItem throws.
ClearCache(threw) ==
  /\ storage' = RemoveItem(storage, threw)
  /\ sent' = NoSend("cleared", ~threw)
  /\ last' = CallLabel("clearCache", <<>>,
                       <<HostCall("removeItem", CACHE_KEY, NoItem, threw)>>, Undefined)
  /\ UNCHANGED <<progVars, trig, callback, present, now, attrs, activeObservers, faults, subs, seen>>

\* Time passes.
Advance(d) ==
  /\ now + d <= MaxNow
  /\ now' = now + d
  /\ last' = Idle
  /\ UNCHANGED <<progVars, trig, callback, present, storage, sent, attrs,
                 activeObservers, faults, subs, seen>>

Durations == {CACHE_TTL, CACHE_TTL + 1}

Urls == {"/a", "/b", ""}

SendManifest ==
  <<Entry("q", "#a", "value", Undefined),
    Entry("tag", "#a", "data:x", Undefined),
    Entry("all", ".d", "attr:data-x", Undefined)>>

OptsInputs ==
  {NoOpts, [headers |-> [XCustom |-> "value"]], [body |-> Malformed]}

\* What another script, or an earlier page, may have left under CACHE_KEY.
ForeignItems ==
  {NoItem, Malformed, JsonText(NullTree),
   JsonText([NullTree EXCEPT !.kind = "object"]),
   JsonText([NullTree EXCEPT !.kind = "object", !.url = "/old"]),
   JsonText([NullTree EXCEPT !.kind = "object", !.hasState = TRUE]),
   JsonText([NullTree EXCEPT !.kind = "object", !.url = "/old", !.hasState = TRUE]),
   JsonText([NullTree EXCEPT !.kind = "object", !.url = "/old", !.hasState = TRUE,
                             !.hasTs = TRUE, !.ts = 1])}

CacheInit ==
  /\ InitCore
  /\ present = DocOrder
  /\ storage \in ForeignItems
  /\ now = 0
  /\ sent = NoSend("initial", TRUE)
  /\ attrs = NoAttrs
  /\ activeObservers = [n \in Nodes |-> Null]
  /\ faults = [s \in Sessions |-> 0]
  /\ subs = [f \in OnFns |-> 0]
  /\ seen = <<>>

CacheNext ==
  \/ \E url \in Urls, opts \in OptsInputs, threw \in BOOLEAN :
       Send(url, SendManifest, opts, threw)
  \/ \E threw \in BOOLEAN : Replay(threw)
  \/ \E threw \in BOOLEAN : ClearCache(threw)
  \/ \E d \in Durations : Advance(d)
  \/ \E n \in Nodes, v \in Values : SetValue(n, v)

CacheSpec == CacheInit /\ [][CacheNext]_vars

(***************************************************************************)
(* The htmx extension (domx-htmx.js)                                       *)
(***************************************************************************)
\* What findManifest returns: found is FALSE for null.
NoManifest == [found |-> FALSE, m |-> <<>>]

\* parseManifest(value): "json" is the JSON text of FormManifest, "myManifest"
\* the name of a window property holding CustomManifest, and any other value
\* neither JSON nor the name of a window property.
ParseManifest(value) ==
  IF value = "json" THEN [found |-> TRUE, m |-> FormManifest]
  ELSE IF value = "myManifest" THEN [found |-> TRUE, m |-> CustomManifest]
  ELSE NoManifest

RECURSIVE FindManifest(_)
FindManifest(current) ==
  IF current = Null THEN NoManifest
  ELSE IF ~Falsy(attrs[current].manifest) THEN ParseManifest(attrs[current].manifest)
  ELSE FindManifest(ParentElement(current))

\* isCacheEnabled looking at the element alone.
RECURSIVE IsCacheEnabledSelfOnly(_)
IsCacheEnabledSelfOnly(current) == current # Null /\ attrs[current].cache = "true"

RECURSIVE IsCacheEnabled(_)
IsCacheEnabled(current) ==
  IF current = Null THEN FALSE
  ELSE IF attrs[current].cache = "true" THEN TRUE
  ELSE IF attrs[current].cache = "false" THEN FALSE
  ELSE IsCacheEnabled(ParentElement(current))

\* The session the next observe() call starts.
FreeSession ==
  SessionOrder[CHOOSE k \in 1..Len(SessionOrder) :
                 /\ status[SessionOrder[k]] = "none"
                 /\ \A j \in 1..(k - 1) : status[SessionOrder[j]] # "none"]

\* A handler without the activeObservers.has(el) test: every event for an
\* element with a manifest starts a session and replaces the map entry.
BeforeProcessNodeAgain(el) ==
  LET found == FindManifest(el)
  IN  IF found.found
      THEN /\ ObserveCall(found.m, el)
           /\ activeObservers' = [activeObservers EXCEPT ![el] = FreeSession]
           /\ UNCHANGED <<present, storage, now, sent, attrs, faults, subs, seen>>
      ELSE /\ last' = CallLabel("beforeProcessNode", <<el>>, <<>>, Undefined)
           /\ UNCHANGED <<progVars, trig, callback, extVars>>

\* A handler that keeps one session per manifest: it starts none while some
\* element has a session with the manifest it found.
BeforeProcessNodePerManifest(el) ==
  LET found == FindManifest(el)
      held == \E n \in Nodes :
                activeObservers[n] # Null /\ manifest[activeObservers[n]] = found.m
  IN  IF found.found /\ ~held
      THEN /\ ObserveCall(found.m, el)
           /\ activeObservers' = [activeObservers EXCEPT ![el] = FreeSession]
           /\ UNCHANGED <<present, storage, now, sent, attrs, faults, subs, seen>>
      ELSE /\ last' = CallLabel("beforeProcessNode", <<el>>, <<>>, Undefined)
           /\ UNCHANGED <<progVars, trig, callback, extVars>>

\* onEvent('htmx:beforeProcessNode', evt), el being evt.detail.elt.  An event
\* that starts no session is labelled with its element.
BeforeProcessNode(el) ==
  LET found == FindManifest(el)
  IN  IF found.found /\ activeObservers[el] = Null
      THEN /\ ObserveCall(found.m, el)
           /\ activeObservers' = [activeObservers EXCEPT ![el] = FreeSession]
           /\ UNCHANGED <<present, storage, now, sent, attrs, faults, subs, seen>>
      ELSE /\ last' = CallLabel("beforeProcessNode", <<el>>, <<>>, Undefined)
           /\ UNCHANGED <<progVars, trig, callback, extVars>>

\* A cleanup that deletes the map entry without calling unsubscribe.
BeforeCleanupElementForgets(el) ==
  /\ activeObservers' = [activeObservers EXCEPT ![el] = Null]
  /\ last' = Idle
  /\ UNCHANGED <<progVars, trig, callback, present, storage, now, sent, attrs, faults, subs, seen>>

\* onEvent('htmx:beforeCleanupElement', evt).  An event for an element
\* without a session is labelled with its element.
BeforeCleanupElement(el) ==
  IF activeObservers[el] # Null
  THEN /\ UnsubscribeCall(activeObservers[el])
       /\ activeObservers' = [activeObservers EXCEPT ![el] = Null]
       /\ UNCHANGED <<present, storage, now, sent, attrs, faults, subs, seen>>
  ELSE /\ last' = CallLabel("beforeCleanupElement", <<el>>, <<>>, Undefined)
       /\ UNCHANGED <<progVars, trig, callback, extVars>>

\* Object.assign(target, source) on objects kept as sequences of properties:
\* a key of source replaces the value in place or is added at the end.
RECURSIVE ObjectAssign(_, _)
ObjectAssign(target, source) ==
  IF source = <<>> THEN target
  ELSE LET it == Head(source)
           has == \E k \in 1..Len(target) : target[k].label = it.label
           put == IF has
                  THEN [k \in 1..Len(target) |->
                          IF target[k].label = it.label THEN it ELSE target[k]]
                  ELSE Append(target, it)
       IN  ObjectAssign(put, Tail(source))

\* onEvent('htmx:configRequest', evt): path and parameters are evt.detail's;
\* threw tells whether localStorage.setItem throws.
ConfigRequest(el, path, parameters, threw) ==
  LET found == FindManifest(el)
      state == Collect(found.m)
      caches == found.found /\ IsCacheEnabled(el)
      item == JsonText(CacheRecord(path, state, now))
  IN  /\ storage' = IF caches THEN SetItem(storage, item, threw) ELSE storage
      /\ last' = CallLabel("configRequest", <<el, path, parameters>>,
                           IF caches THEN <<HostCall("setItem", CACHE_KEY, item, threw)>>
                           ELSE <<>>,
                           IF found.found THEN ObjectAssign(parameters, state)
                           ELSE parameters)
      /\ UNCHANGED <<progVars, trig, callback, present, now, sent, attrs,
                     activeObservers, faults, subs, seen>>

\* One request parameter, or property of a state object, with a string value.
Param(label, v) == [label |-> label, shape |-> "single", values |-> <<v>>, value |-> v]

ParamInputs == {<<>>, <<Param("a", "old"), Param("page", "1")>>}

\* The attributes of a page: dx-manifest on body or on c, dx-cache on html, body
\* or c.
AttrsOf(manifestOn, manifestValue, cacheHtml, cacheBody, cacheC) ==
  [n \in Nodes |->
     [manifest |-> IF n = manifestOn THEN manifestValue ELSE Null,
      cache |-> IF n = "html" THEN cacheHtml
                ELSE IF n = "body" THEN cacheBody
                ELSE IF n = "c" THEN cacheC ELSE Null]]

AttrConfigs ==
  {AttrsOf("body", "json", Null, "true", Null),
   AttrsOf("body", "json", Null, "true", "false"),
   AttrsOf("body", "json", "true", "yes", ""),
   AttrsOf("body", "myManifest", Null, "false", "true"),
   AttrsOf("c", "json", Null, Null, Null),
   AttrsOf("c", "nope", "true", Null, Null)}

HtmxInit ==
  /\ InitCore
  /\ present = DocOrder
  /\ storage = NoItem
  /\ now = 0
  /\ sent = NoSend("initial", TRUE)
  /\ attrs \in AttrConfigs
  /\ activeObservers = [n \in Nodes |-> Null]
  /\ faults = [s \in Sessions |-> 0]
  /\ subs = [f \in OnFns |-> 0]
  /\ seen = <<>>

\* The elements htmx processes and sends requests for.
HtmxElements == {"body", "a", "c"}

\* The extension's sessions: elements processed and cleaned up, and what
\* triggers and runs their flushes.
HtmxNext ==
  \/ \E el \in HtmxElements : BeforeProcessNode(el)
  \/ \E el \in HtmxElements : BeforeCleanupElement(el)
  \/ \E n \in Nodes, v \in Values : SetAttribute(n, v)
  \/ \E type \in EventTypes, target \in Nodes \ {"html"}, bubbles \in BOOLEAN :
       DispatchEvent(type, target, bubbles)
  \/ Deliver
  \/ BeginFrame
  \/ RunCallback

HtmxSpec == HtmxInit /\ [][HtmxNext]_vars

\* The extension's part in requests: htmx:configRequest for elements of a page
\* whose inputs and attributes change.
RequestNext ==
  \/ \E el \in HtmxElements, path \in Urls, parameters \in ParamInputs,
        threw \in BOOLEAN :
       ConfigRequest(el, path, parameters, threw)
  \/ \E n \in Nodes, v \in Values : SetValue(n, v)
  \/ \E n \in Nodes, v \in Values : SetAttribute(n, v)

RequestSpec == HtmxInit /\ [][RequestNext]_vars

(***************************************************************************)
(* A callback that triggers its own session while its flush is executing:  *)
(* it dispatches an event on a watched element, whose delegated handlers   *)
(* run before dispatchEvent returns, or it sets an attribute of body,      *)
(* whose record the host delivers after the frame callback has returned.   *)
(***************************************************************************)
\* What the reentrant callback calls.
CallbackActs ==
  [how : {"dispatchEvent"}, type : EventTypes, target : Nodes \ {"html"}, v : {"x0"}]
    \cup [how : {"setAttribute"}, type : {""}, target : {"body"}, v : Values]

\* The sessions whose delegated handlers call scheduleCallback for the event
\* the callback dispatches (it bubbles), in registration order.
FiringFor(act) ==
  LET firing == SelectSeq(listeners, LAMBDA l : l.type = act.type /\ HandlerFires(l, act.target))
  IN  IF act.how = "dispatchEvent" THEN firing ELSE <<>>

\* A frame callback that assigns pending = null after the callback returned:
\* the callback's own trigger finds pending set and requests nothing.
ReentrantFrameClearsLate(sch, s, act) ==
  LET firing == FiringFor(act)
      after == ScheduleAll([sch EXCEPT !.trig[s] = 0],
                           [k \in 1..Len(firing) |-> firing[k].s])
  IN  [after EXCEPT !.pending[s] = 0]

\* () => { pending = null; callback(collect(manifest)); } with a callback that
\* does act: scheduleCallback runs inside the callback, after pending = null.
ReentrantFrame(sch, s, act) ==
  LET firing == FiringFor(act)
  IN  ScheduleAll([sch EXCEPT !.pending[s] = 0, !.trig[s] = 0],
                  [k \in 1..Len(firing) |-> firing[k].s])

\* The host runs the next callback of the frame, and the session's callback
\* does act: an event that one of the session's own handlers answers, or an
\* attribute write on body.
RunReentrantCallback(act) ==
  LET s == Head(running).s
      firing == FiringFor(act)
      sch == ReentrantFrame(Sched, s, act)
      state == Collect(manifest[s])
  IN  /\ running # <<>>
      /\ act.how = "dispatchEvent" => \E k \in 1..Len(firing) : firing[k].s = s
      /\ act.how = "setAttribute" => Observed(act.target, "attributes") /\ Len(records) < MaxRecords
      /\ running' = Tail(running)
      /\ pending' = sch.pending
      /\ rafQueue' = sch.raf
      /\ trig' = sch.trig
      /\ dom' = IF act.how = "setAttribute" /\ <<act.target, "@data-x">> \in Cells
                THEN [dom EXCEPT ![<<act.target, "@data-x">>] = act.v] ELSE dom
      /\ records' = IF act.how = "setAttribute"
                    THEN Append(records, [type |-> "attributes", target |-> act.target])
                    ELSE records
      /\ last' = [Label("flush", s, act.type, act.target,
                        {<<firing[k].s, firing[k].i>> : k \in 1..Len(firing)},
                        <<>>, state, trig[s])
                    EXCEPT !.calls = <<[fn |-> "callback", target |-> "", payload |-> state,
                                        threw |-> FALSE],
                                       [fn |-> act.how, target |-> act.target,
                                        payload |-> act.type, threw |-> FALSE]>>]
      /\ UNCHANGED <<callback, extVars>>
      /\ UNCHANGED <<sharedObserver, created, observerCallbacks, onCallbacks, onHandles,
                     listeners, status, manifest>>

\* One session, observed once.
ReentrantNext ==
  \/ \E m \in Manifests : (\A s \in Sessions : status[s] = "none") /\ Observe(m)
  \/ \E s \in Sessions : Unsubscribe(s)
  \/ \E n \in Nodes, v \in Values : SetValue(n, v)
  \/ \E type \in EventTypes, target \in Nodes \ {"html"} : DispatchEvent(type, target, TRUE)
  \/ Deliver
  \/ BeginFrame
  \/ \E act \in CallbackActs : RunReentrantCallback(act)

\* The host delivers queued records, starts frames and runs every callback of
\* a frame.
ReentrantSpec ==
  /\ Init
  /\ [][ReentrantNext]_vars
  /\ WF_vars(Deliver)
  /\ WF_vars(BeginFrame)
  /\ WF_vars(\E act \in CallbackActs : RunReentrantCallback(act))

(***************************************************************************)
(* Subscriptions over time: on() called again for a callback it already    *)
(* holds, the unsubscribe functions it returned called one by one, and     *)
(* subscribers coming and going between a change and the delivery of its   *)
(* record.  The sessions have the manifest whose entry is watched by       *)
(* mutation on body.                                                       *)
(***************************************************************************)
\* Most unsubscribe functions of one callback that wait to be called.
MaxSubs == 2

\* on(f), one more unsubscribe function of f to call.
CountedOn(f) ==
  /\ subs[f] < MaxSubs
  /\ OnCall(f)
  /\ subs' = [subs EXCEPT ![f] = @ + 1]
  /\ UNCHANGED <<present, storage, now, sent, attrs, activeObservers, faults, seen>>

\* One of the unsubscribe functions on(f) returned is called for the first time.
Release(f) ==
  /\ subs[f] > 0
  /\ OnUnsubscribeCall(f)
  /\ subs' = [subs EXCEPT ![f] = @ - 1]
  /\ UNCHANGED <<present, storage, now, sent, attrs, activeObservers, faults, seen>>

\* document.body.setAttribute('data-x', v); the first record of a batch
\* remembers who was subscribed.
StampedSetAttribute(v) ==
  /\ SetAttributeCall("body", v, MaxRecords)
  /\ seen' = IF records = <<>> /\ records' # <<>> THEN observerCallbacks ELSE seen
  /\ UNCHANGED <<present, storage, now, sent, attrs, activeObservers, faults, subs>>

\* One session, observed once, among the on() subscribers.
SubscriptionNext ==
  \/ (\A s \in Sessions : status[s] = "none") /\ Observe(CustomManifest)
  \/ \E s \in Sessions : Unsubscribe(s)
  \/ \E f \in OnFns : CountedOn(f)
  \/ \E f \in OnFns : Release(f)
  \/ \E v \in Values : StampedSetAttribute(v)
  \/ Deliver
  \/ BeginFrame
  \/ RunCallback

SubscriptionSpec == Init /\ [][SubscriptionNext]_vars

(***************************************************************************)
(* Faults in the fan-out: an on() callback that throws, and a session      *)
(* whose manifest holds a selector that element.matches() rejects with a   *)
(* SyntaxError.  The observer's callback is                                *)
(*     for (const callback of observerCallbacks) callback(mutations);      *)
(* and an exception leaves it for the host, which reports it; the batch    *)
(* was taken from the queue before the callback ran.                       *)
(***************************************************************************)
\* A selector that is not valid CSS.
InvalidSelector == "!!"

\* A manifest whose only entry, watched by mutation, has the invalid selector.
BrokenManifest == <<Entry("bad", InvalidSelector, "attr:data-x", Undefined)>>

DeliveryManifests == {BrokenManifest, CustomManifest}

\* Whether target.matches(selector) throws.
SelectorThrows(selector) == selector = InvalidSelector

\* Whether mutationHandler leaves by an exception: walking the records of
\* elements and, for each, the watched selectors in order, it meets an invalid
\* selector before a relevant one.
RECURSIVE MutationHandlerThrows(_, _)
MutationHandlerThrows(m, mutations) ==
  IF mutations = <<>> THEN FALSE
  ELSE LET target == Head(mutations).target
           stops == SelectSeq(WatchedSelectors(m),
                              LAMBDA i : \/ SelectorThrows(m[i].selector)
                                         \/ Relevant(target, m[i].selector))
       IN  IF NodeType(target) # 1 THEN MutationHandlerThrows(m, Tail(mutations))
           ELSE IF stops # <<>> THEN SelectorThrows(m[Head(stops)].selector)
           ELSE MutationHandlerThrows(m, Tail(mutations))

\* Whether subscriber c throws for the batch; throwing holds the on() callbacks
\* that do.
SubscriberThrows(c, throwing) ==
  IF c \in Sessions THEN MutationHandlerThrows(manifest[c], records) ELSE c \in throwing

\* A loop with a try around each callback.
FaultyFanOutIsolated(callbacks, throwing) == callbacks

\* The callbacks the observer's loop calls, in order: it ends with the first
\* one that throws.
RECURSIVE FaultyFanOut(_, _)
FaultyFanOut(callbacks, throwing) ==
  IF callbacks = <<>> THEN <<>>
  ELSE IF SubscriberThrows(Head(callbacks), throwing) THEN <<Head(callbacks)>>
  ELSE <<Head(callbacks)>> \o FaultyFanOut(Tail(callbacks), throwing)

\* The host delivers the batch; the on() callbacks in throwing throw.
FaultyDeliver(throwing) ==
  LET called == FaultyFanOut(observerCallbacks, throwing)
      firing == SelectSeq(called, LAMBDA c :
                  /\ c \in Sessions
                  /\ ~SubscriberThrows(c, throwing)
                  /\ MutationHandler(manifest[c], records) # 0)
      sch == ScheduleAll(Sched, firing)
  IN  /\ records # <<>>
      /\ \A f \in throwing : \E k \in 1..Len(onCallbacks) : onCallbacks[k] = f
      /\ records' = <<>>
      /\ pending' = sch.pending
      /\ rafQueue' = sch.raf
      /\ trig' = sch.trig
      /\ last' = [Label("deliver", "", "", "",
                        {<<firing[k], MutationHandler(manifest[firing[k]], records)>> :
                           k \in 1..Len(firing)},
                        called, <<>>, Len(records))
                    EXCEPT !.threw = \E k \in 1..Len(called) :
                                       SubscriberThrows(called[k], throwing),
                           !.args = <<throwing>>]
      /\ UNCHANGED <<callback, extVars>>
      /\ UNCHANGED <<dom, sharedObserver, created, observerCallbacks, onCallbacks,
                     onHandles, listeners, status, manifest, running>>

DeliveryNext ==
  \/ \E m \in DeliveryManifests : Observe(m)
  \/ \E s \in Sessions : Unsubscribe(s)
  \/ \E f \in OnFns : On(f)
  \/ \E f \in OnFns : OnUnsubscribe(f)
  \/ \E v \in Values : SetAttribute("body", v)
  \/ \E throwing \in SUBSET OnFns : FaultyDeliver(throwing)
  \/ BeginFrame
  \/ RunCallback

DeliverySpec == Init /\ [][DeliveryNext]_vars

(***************************************************************************)
(* Round trips of apply() and collect(): entries whose read and write are  *)
(* the same shortcut, on a page where the attribute data-x of b and c may  *)
(* be absent: getAttribute then gives null and dataset.x undefined.        *)
(***************************************************************************)
RoundTripManifest ==
  <<WEntry("v", "#a", "value", "value"),
    WEntry("k", "#b", "checked", "checked"),
    WEntry("t", "#c", "text", "text"),
    WEntry("at", "#c", "attr:data-x", "attr:data-x"),
    WEntry("da", "#b", "data:x", "data:x")>>

\* One entry whose selector matches b and c.
ManyManifest == <<WEntry("many", ".d", "attr:data-x", "attr:data-x")>>

RoundTripManifests == {RoundTripManifest, ManyManifest}

Booleans == {"true", "false"}

\* The state objects {label: v}: v a string, a boolean for 'checked'.
RoundTripStates(m) ==
  UNION {[{m[i].label} -> IF m[i].write = "checked" THEN Booleans ELSE Values] :
           i \in 1..Len(m)}

\* The state object that collect() returned, as apply() takes it.
SnapshotState(snap) ==
  [l \in {snap[k].label : k \in 1..Len(snap)} |->
     snap[CHOOSE k \in 1..Len(snap) : snap[k].label = l].value]

\* el.removeAttribute('data-x')
RemoveAttribute(n) ==
  /\ <<n, "@data-x">> \in DOMAIN dom
  /\ dom' = [cell \in DOMAIN dom \ {<<n, "@data-x">>} |-> dom[cell]]
  /\ last' = Idle
  /\ UNCHANGED <<sharedObserver, created, records, observerCallbacks, onCallbacks,
                 onHandles, listeners, status, manifest, pending, rafQueue, running,
                 trig, callback, extVars>>

\* The page as loaded: a's value, b unchecked, c's text, and no data-x.
RoundTripInit ==
  /\ dom = (<<"a", "value">> :> "x0") @@ (<<"b", "checked">> :> "false")
             @@ (<<"c", "textContent">> :> "x0")
  /\ InitModule
  /\ present = DocOrder
  /\ storage = NoItem
  /\ now = 0
  /\ sent = NoSend("initial", TRUE)
  /\ attrs = NoAttrs
  /\ activeObservers = [n \in Nodes |-> Null]
  /\ faults = [s \in Sessions |-> 0]
  /\ subs = [f \in OnFns |-> 0]
  /\ seen = <<>>

RoundTripNext ==
  \/ \E m \in RoundTripManifests : \E state \in RoundTripStates(m) : CallApply(m, state)
  \/ CallApply(RoundTripManifest, SnapshotState(Collect(RoundTripManifest)))
  \/ \E m \in RoundTripManifests : CallCollect(m)
  \/ \E n \in {"b", "c"} : RemoveAttribute(n)

RoundTripSpec == RoundTripInit /\ [][RoundTripNext]_vars

(***************************************************************************)
(* Properties                                                              *)
(***************************************************************************)
Flushed(s) == last.op = "flush" /\ last.s = s

\* The frame callbacks of session s the host still holds.
EntriesFor(s) ==
  Len(SelectSeq(rafQueue \o running, LAMBDA r : r.s = s))

Indexed(seq) == {seq[i] : i \in 1..Len(seq)}

\* C1: while a session is live, the host holds exactly one frame callback for it
\* when some trigger has fired since its last flush, however many have, and none
\* otherwise; the flush answers all of them with one callback invocation.
C1_OneFlushPerWindow ==
  \A s \in Sessions :
    status[s] = "active" =>
      /\ EntriesFor(s) = (IF trig[s] > 0 THEN 1 ELSE 0)
      /\ Flushed(s) => last.n >= 1

\* Two or more triggers were answered by one callback invocation.
C1_Witness ==
  \E s \in Sessions : status[s] = "active" /\ Flushed(s) /\ last.n >= 2 /\ trig[s] = 0

\* C2: once a session is cancelled its callback is not invoked, no frame
\* callback of it is left, and no event or delivered batch schedules one.
C2_NoCallbackAfterCancel ==
  \A s \in Sessions :
    status[s] = "cancelled" =>
      /\ ~Flushed(s)
      /\ EntriesFor(s) = 0
      /\ pending[s] = 0
      /\ \A e \in last.fired : e[1] # s

\* A cancel revoked a pending flush while a batch of records is still to be
\* delivered.
C2_Witness ==
  \E s \in Sessions :
    /\ status[s] = "cancelled"
    /\ last.op = "cancel" /\ last.s = s /\ last.n = 1
    /\ records # <<>>

\* C3: calling the cancel function of a session that is cancelled already
\* changes nothing: no registration, no pending flush, of any session.
C3_CancelIdempotent ==
  [][(last'.op = "cancel" /\ last'.type = "again") => UNCHANGED progVars]_vars

\* A second cancel, made while the other session is live with a flush pending.
C3_Witness ==
  /\ last.op = "cancel" /\ last.type = "again"
  /\ \E t \in Sessions : t # last.s /\ status[t] = "active" /\ pending[t] # 0

\* C4: no MutationObserver is constructed before the first observe() or on()
\* call, and exactly one has been constructed from then on.
C4_SingleObserver ==
  LET called == onHandles # {} \/ \E s \in Sessions : status[s] # "none"
  IN  /\ created = (IF called THEN 1 ELSE 0)
      /\ sharedObserver = created

\* Two sessions with different manifests and an on() subscriber share it.
C4_Witness ==
  /\ created = 1
  /\ \A s \in Sessions : status[s] = "active"
  /\ manifest["s1"] # manifest["s2"]
  /\ onCallbacks # <<>>

\* C5 as claimed: changing the watched attribute of an element inside body leads
\* to a callback invocation of the session (unless it is cancelled first).
C5_AttributeChangeLeadsToCallback ==
  \A s \in Sessions :
    (/\ status[s] = "active" /\ manifest[s] = FormManifest
     /\ last.op = "setAttribute" /\ last.target = "c")
      ~> (Flushed(s) \/ status[s] = "cancelled")

\* C6 as claimed: a session whose entries all have a custom read function and
\* no watch is never called back.
C6_CustomReadNeverCallsBack ==
  \A s \in Sessions : manifest[s] = CustomManifest => ~Flushed(s)

\* C7: the callback's argument has, for every entry of the manifest that has a
\* selector and a read, in manifest order, what that entry reads from the DOM
\* as it is when the flush runs.
C7_SnapshotAtFlushTime ==
  \A s \in Sessions :
    Flushed(s) =>
      LET m == manifest[s]
          readable == SelectSeq(Indexes(m), LAMBDA i :
                        m[i].selector # Undefined /\ m[i].read # Undefined)
      IN  /\ Len(last.snap) = Len(readable)
          /\ \A k \in 1..Len(readable) :
               LET config == m[readable[k]]
                   elements == QuerySelectorAll(config.selector)
               IN  /\ last.snap[k].label = config.label
                   /\ Len(last.snap[k].values) = Len(elements)
                   /\ \A j \in 1..Len(elements) :
                        last.snap[k].values[j] = ParseRead(config.read, elements[j])

\* One trigger, and the snapshot carries two changed values.
C7_Witness ==
  \E s \in Sessions :
    /\ Flushed(s) /\ manifest[s] = FormManifest /\ last.n = 1
    /\ \E k, l \in 1..Len(last.snap) :
         /\ last.snap[k].label = "a" /\ last.snap[k].values = <<"x1">>
         /\ last.snap[l].label = "sortDir" /\ last.snap[l].values = <<"x1">>

\* The trigger the documentation gives an entry with a shortcut read.
ExpectedTrigger(config) ==
  IF config.watch # Undefined THEN config.watch
  ELSE IF config.read = "value" THEN "input"
  ELSE IF config.read = "checked" THEN "change"
  ELSE "mutation"

\* C8: an entry with a shortcut read has a delegated listener exactly for the
\* event its (read, watch) gives, none when that is tree mutation, and its
\* trigger fires only on that event or, for tree mutation, only on a delivery.
C8_TriggerKind ==
  \A s \in Sessions : \A i \in 1..Len(manifest[s]) :
    LET config == manifest[s][i]
    IN  config.read # "fn" =>
          /\ status[s] = "active" =>
               {l.type : l \in {x \in Indexed(listeners) : x.s = s /\ x.i = i}}
                 = {ExpectedTrigger(config)} \ {"mutation"}
          /\ <<s, i>> \in last.fired =>
               IF ExpectedTrigger(config) = "mutation" THEN last.op = "deliver"
               ELSE last.op = "event" /\ last.type = ExpectedTrigger(config)

\* A change event fired the entry that reads value and watches change.
C8_Witness ==
  \E s \in Sessions : \E i \in 1..Len(manifest[s]) :
    /\ manifest[s][i].read = "value" /\ manifest[s][i].watch = "change"
    /\ last.op = "event" /\ last.type = "change" /\ <<s, i>> \in last.fired

\* C9: a session that a relevant trigger has fired for, and that is not
\* cancelled afterwards, is eventually called back with a snapshot.
C9_TriggerLeadsToCallback ==
  \A s \in Sessions :
    (status[s] = "active" /\ trig[s] > 0) ~> (Flushed(s) \/ status[s] = "cancelled")

\* A callback invocation that answers a trigger, with its snapshot.
C9_Witness ==
  \E s \in Sessions : Flushed(s) /\ last.n >= 1 /\ last.snap # <<>>

C11_OnUnsubscribe ==
  [][\A f \in OnFns :
       /\ OnUnsubscribe(f) =>
            /\ f \notin Indexed(observerCallbacks') \cup Indexed(onCallbacks')
            /\ observerCallbacks' = SelectSeq(observerCallbacks, LAMBDA c : c # f)
            /\ f \notin Indexed(observerCallbacks) => UNCHANGED progVars
       /\ (f \notin Indexed(observerCallbacks) /\ f \in Indexed(observerCallbacks'))
            => On(f)
       /\ last'.op = "deliver" =>
            (f \in Indexed(last'.invoked) <=> f \in Indexed(observerCallbacks))]_vars

\* A batch delivered after f1's unsubscribe: f1 is not called, f2 and a session are.
C11_Witness ==
  /\ last.op = "deliver"
  /\ "f1" \in onHandles /\ "f1" \notin Indexed(observerCallbacks)
  /\ "f1" \notin Indexed(last.invoked) /\ "f2" \in Indexed(last.invoked)
  /\ \E s \in Sessions : s \in Indexed(last.invoked)

\* C12 as claimed: once the shared watcher exists, an attribute change of any
\* element in body's subtree, body or a descendant, leaves a record of it
\* queued for delivery to the subscribers.
C12_SubtreeChangeIsRecorded ==
  (/\ last.op = "setAttribute" /\ sharedObserver # 0
   /\ Closest(last.target, "body") # Null)
    => \E i \in 1..Len(records) : records[i].target = last.target

\* C20: observe() reads no snapshot and calls no callback, an event or a
\* delivery only schedules, and every callback invocation is the frame callback
\* at the head of the frame under way, whose request is the one the session
\* holds as pending and was made by a trigger of the session since its last
\* flush.
C20_NoSynchronousCollect ==
  [][/\ (\E m \in Manifests : Observe(m)) => last'.op = "idle" /\ last'.snap = <<>>
     /\ last'.op \in {"event", "deliver"} =>
          /\ last'.snap = <<>>
          /\ \A e \in last'.fired : pending'[e[1]] # 0 /\ EntriesFor(e[1])' = 1
     /\ last'.op = "flush" =>
          /\ running # <<>>
          /\ Head(running).s = last'.s
          /\ pending[last'.s] # 0
          /\ Head(running).h = pending[last'.s]
          /\ trig[last'.s] >= 1]_vars

\* A delivery whose mutation handler fired for a session: the flush is
\* requested and pending, and nothing has been read or called back.
C20_Witness ==
  /\ last.op = "deliver" /\ last.snap = <<>>
  /\ \E e \in last.fired : pending[e[1]] # 0 /\ EntriesFor(e[1]) = 1 /\ trig[e[1]] = 1

\* The elements a selector matches now, in document order.
Matching(selector) == SelectSeq(present, LAMBDA n : Matches(n, selector))

\* C13: the object collect() returns has a key for exactly the entries that have
\* a selector and a read, and under it null when the selector matches no
\* element now, the extracted value when it matches one, and the array of the
\* extracted values in document order when it matches several.
C13_CollectShapes ==
  last.op = "collect" =>
    LET m == last.args[1]
        state == last.ret
    IN  \A i \in 1..Len(m) :
          LET config == m[i]
              keys == {k \in 1..Len(state) : state[k].label = config.label}
              elements == Matching(config.selector)
              extracted == [j \in 1..Len(elements) |->
                              ParseRead(config.read, elements[j])]
          IN  IF config.selector = Undefined \/ config.read = Undefined
              THEN keys = {}
              ELSE /\ Cardinality(keys) = 1
                   /\ \A k \in keys :
                        /\ state[k].shape =
                             (IF Len(elements) = 0 THEN "null"
                              ELSE IF Len(elements) = 1 THEN "single" ELSE "array")
                        /\ Len(elements) = 0 => state[k].value = Null
                        /\ Len(elements) = 1 => state[k].value = extracted[1]
                        /\ Len(elements) > 1 => state[k].value = extracted

\* One collect() with all three shapes: a was detached (null), c was detached
\* and attached again so that it comes after b (an array in the new document
\* order), and #c matches one element.
C13_Witness ==
  /\ last.op = "collect"
  /\ present = <<"html", "body", "b", "c">>
  /\ dom[<<"b", "@data-x">>] # dom[<<"c", "@data-x">>]
  /\ \E k1, k2, k3 \in 1..Len(last.ret) :
       /\ last.ret[k1].label = "one" /\ last.ret[k1].value = Null
       /\ last.ret[k2].label = "many"
       /\ last.ret[k2].value = <<dom[<<"b", "@data-x">>], dom[<<"c", "@data-x">>]>>
       /\ last.ret[k3].label = "last" /\ last.ret[k3].value = dom[<<"c", "@data-x">>]

\* C14: apply() leaves each property and attribute with the value state gives
\* the last entry, in manifest order, that has a write directive for it, whose
\* label is a key of state and whose selector matches the element; what no such
\* entry covers is unchanged, and so is everything but the written cells.
C14_ApplyWritesExactly ==
  [][last'.op = "apply" =>
       LET m == last'.args[1]
           state == last'.args[2]
           Writers(cell) ==
             {i \in 1..Len(m) :
                /\ m[i].write # Undefined
                /\ m[i].label \in DOMAIN state
                /\ WriteKey(m[i].write) = cell[2]
                /\ \E j \in 1..Len(present) :
                     present[j] = cell[1] /\ Matches(cell[1], m[i].selector)}
       IN  /\ \A cell \in Cells :
                IF Writers(cell) = {} THEN dom'[cell] = dom[cell]
                ELSE \E i \in Writers(cell) :
                       /\ \A j \in Writers(cell) : j <= i
                       /\ dom'[cell] = state[m[i].label]
           /\ DOMAIN dom' = Cells
           /\ present' = present]_vars

\* An apply() whose state has a key of a multi-element entry, of an entry
\* without write and of no entry: both elements of the first are written, and
\* a's value, which no written entry covers, is as it was.
C14_Witness ==
  /\ last.op = "apply"
  /\ DOMAIN last.args[2] = {"many", "last", "writeOnly"}
  /\ last.args[2]["many"] = "x1" /\ last.args[2]["last"] = "x0"
  /\ last.args[2]["writeOnly"] = "x0"
  /\ present = <<"html", "body", "a", "c", "b">>
  /\ dom[<<"a", "value">>] = "x1"
  /\ dom[<<"b", "@data-x">>] = "x0" /\ dom[<<"c", "@data-x">>] = "x0"

\* The fetch calls among the host calls of the step just taken.
Fetches(label) == SelectSeq(label.calls, LAMBDA c : c.fn = "fetch")

\* C15: send(url, manifest) calls localStorage.setItem('domx:lastRequest', ...)
\* with the JSON of {url, state, ts: now}, state being what collect(manifest)
\* gives, and after it fetch, once, with url, method POST and as body the JSON
\* of that same state; the item is stored unless setItem throws, and the fetch
\* is the same either way.
C15_SendCachesThenFetches ==
  (last.op = "send" /\ DOMAIN last.args[3] = {}) =>
    LET url == last.args[1]
        state == Collect(last.args[2])
        calls == last.calls
    IN  /\ last.snap = state
        /\ Len(calls) = 2
        /\ calls[1].fn = "setItem" /\ calls[1].target = "domx:lastRequest"
        /\ calls[1].payload =
             JsonText([kind |-> "object", url |-> url, hasState |-> TRUE,
                       state |-> JsonState(state), hasTs |-> TRUE, ts |-> now])
        /\ calls[2].fn = "fetch" /\ calls[2].target = url
        /\ calls[2].payload.method = "POST"
        /\ calls[2].payload.body = JsonText(calls[1].payload.tree.state)
        /\ ~calls[1].threw => storage = calls[1].payload
        /\ last.ret = "response"

\* A send(url, manifest) whose setItem threw: the fetch is issued all the same,
\* with the changed value of the input in its body, and the cache is not the
\* request.
C15_Witness ==
  /\ last.op = "send" /\ DOMAIN last.args[3] = {}
  /\ last.calls[1].threw
  /\ storage # last.calls[1].payload
  /\ Len(Fetches(last)) = 1
  /\ \E k \in 1..Len(last.snap) : last.snap[k].label = "q" /\ last.snap[k].value = "x1"
  /\ \E k \in 1..Len(Fetches(last)[1].payload.body.tree) :
       Fetches(last)[1].payload.body.tree[k].value = "x1"

\* C16: replay() returns null and calls fetch zero times when getItem throws,
\* when there is no item, when the item does not parse, when it parses to null
\* or to a record without a url or a state, or when the record is more than
\* 300000 ms old; otherwise it calls fetch once with the cached url, method
\* POST and the JSON of the cached state, and returns the response.
C16_ReplayOutcome ==
  last.op = "replay" =>
    LET item == storage
        parsed == item.has /\ item.valid
        silent ==
          \/ last.calls[1].threw
          \/ ~item.has
          \/ ~item.valid
          \/ parsed /\ item.tree.kind = "null"
          \/ parsed /\ item.tree.url \in {Undefined, Null, ""}
          \/ parsed /\ ~item.tree.hasState
          \/ parsed /\ item.tree.hasTs /\ now - item.tree.ts > 300000
    IN  IF silent THEN last.ret = Null /\ Fetches(last) = <<>>
        ELSE /\ Len(Fetches(last)) = 1
             /\ Fetches(last)[1].target = item.tree.url
             /\ Fetches(last)[1].payload.method = "POST"
             /\ Fetches(last)[1].payload.body = JsonText(item.tree.state)
             /\ last.ret = "response"

\* A replay() of a request that send() cached exactly 300000 ms earlier: it is
\* posted.
C16_Witness ==
  /\ last.op = "replay" /\ Len(Fetches(last)) = 1
  /\ sent.kind = "sent" /\ sent.stored
  /\ storage.tree.hasTs /\ now - storage.tree.ts = 300000

\* The text send() writes for the request the history holds.
SentItem(h) ==
  JsonText([kind |-> "object", url |-> h.url, hasState |-> TRUE, state |-> h.json,
            hasTs |-> TRUE, ts |-> h.ts])

\* C17 as claimed: after a send() the cache is that send's request and after a
\* clearCache() it is empty; replay() leaves the cache alone, within 300000 ms
\* of the last send() posts to its url the body it posted, and after a
\* clearCache() returns null without a fetch.
C17_CacheHoldsLastSend ==
  [][/\ sent'.kind = "sent" => storage' = SentItem(sent')
     /\ sent'.kind = "cleared" => storage' = NoItem
     /\ last'.op = "replay" =>
          /\ storage' = storage
          /\ (sent.kind = "sent" /\ now - sent.ts <= 300000) =>
               /\ Len(Fetches(last')) = 1
               /\ Fetches(last')[1].target = sent.url
               /\ Fetches(last')[1].payload.body = sent.body
          /\ sent.kind = "cleared" => last'.ret = Null /\ Fetches(last') = <<>>]_vars

\* C17, amended: the same while localStorage does not throw.  A send() whose
\* setItem went through leaves its request as the cache, one whose setItem
\* threw leaves the cache as it was, and so does a clearCache() whose
\* removeItem threw; a clearCache() whose removeItem went through leaves it
\* empty; replay() never changes it, and when its getItem does not throw it
\* posts, within 300000 ms of a stored send() with a non-empty url, to that url
\* the JSON of the state that send() collected; it returns null without a
\* fetch after a clearCache() that went through, after a stored send() with
\* the empty url, and when its getItem throws.
C17_CacheHoldsLastStoredSend ==
  [][/\ (sent'.kind = "sent" /\ sent'.stored) => storage' = SentItem(sent')
     /\ (last'.op \in {"send", "clearCache"} /\ ~sent'.stored) => storage' = storage
     /\ (sent'.kind = "cleared" /\ sent'.stored) => storage' = NoItem
     /\ last'.op = "replay" =>
          /\ storage' = storage
          /\ (/\ sent.kind = "sent" /\ sent.stored /\ sent.url # ""
              /\ now - sent.ts <= 300000 /\ ~last'.calls[1].threw) =>
               /\ Len(Fetches(last')) = 1
               /\ Fetches(last')[1].target = sent.url
               /\ Fetches(last')[1].payload.body = JsonText(sent.json)
          /\ (\/ sent.kind = "cleared" /\ sent.stored
              \/ sent.kind = "sent" /\ sent.stored /\ sent.url = ""
              \/ last'.calls[1].threw) =>
               last'.ret = Null /\ Fetches(last') = <<>>]_vars

\* A replay() after the input changed and time passed: it posts what the last
\* send() cached, not what the document holds now.
C17_Witness ==
  /\ last.op = "replay" /\ Len(Fetches(last)) = 1
  /\ sent.kind = "sent" /\ sent.stored /\ now = sent.ts + 300000
  /\ Fetches(last)[1].target = sent.url
  /\ Fetches(last)[1].payload.body = sent.body
  /\ JsonState(Collect(SendManifest)) # sent.json

\* C18: an element the extension holds a session for is live with the manifest
\* its nearest dx-manifest resolves to, and every flush of that session
\* dispatches one bubbling dx:change on the element with the snapshot as
\* detail.state; once the element is cleaned up its session is cancelled, none
\* of its frame callbacks is left, and no dx:change is dispatched on it.
C18_DxChangeWhileProcessed ==
  \A s \in Sessions :
    callback[s] \in Nodes =>
      LET el == callback[s]
      IN  /\ activeObservers[el] = s =>
               /\ status[s] = "active"
               /\ FindManifest(el).found /\ manifest[s] = FindManifest(el).m
          /\ Flushed(s) =>
               /\ activeObservers[el] = s
               /\ Len(last.calls) = 1
               /\ last.calls[1].fn = "dispatchEvent" /\ last.calls[1].target = el
               /\ last.calls[1].payload.type = "dx:change"
               /\ last.calls[1].payload.bubbles
               /\ last.calls[1].payload.detail.state = Collect(manifest[s])
          /\ activeObservers[el] # s =>
               /\ status[s] = "cancelled"
               /\ pending[s] = 0 /\ EntriesFor(s) = 0
               /\ ~Flushed(s)
               /\ \A e \in last.fired : e[1] # s

\* dx:change is dispatched on c, whose manifest comes from body's attribute,
\* after body was cleaned up with its own flush pending: that flush was revoked.
C18_Witness ==
  \E s, t \in Sessions :
    /\ callback[s] = "c" /\ Flushed(s) /\ last.calls # <<>>
    /\ last.calls[1].target = "c" /\ last.snap # <<>>
    /\ callback[t] = "body" /\ status[t] = "cancelled" /\ activeObservers["body"] = Null
    /\ trig[t] = 0 /\ last.n >= 1

\* The element and its ancestors, nearest first.
RECURSIVE AncestorsOrSelf(_)
AncestorsOrSelf(n) == IF n = Null THEN <<>> ELSE <<n>> \o AncestorsOrSelf(ParentElement(n))

\* Whether the nearest ancestor-or-self whose dx-cache is 'true' or 'false'
\* carries 'true'.
NearestCacheIsTrue(el) ==
  LET decided == SelectSeq(AncestorsOrSelf(el),
                           LAMBDA n : attrs[n].cache \in {"true", "false"})
  IN  decided # <<>> /\ attrs[decided[1]].cache = "true"

\* Whether the nearest ancestor-or-self with a non-empty dx-manifest resolves.
Resolves(el) ==
  LET holders == SelectSeq(AncestorsOrSelf(el),
                           LAMBDA n : attrs[n].manifest \notin {Null, ""})
  IN  holders # <<>> /\ attrs[holders[1]].manifest \in {"json", "myManifest"}

\* The parameters after the state was merged into them: every property of
\* the state, and the parameters it has no key for.
Merged(parameters, state, result) ==
  /\ \A k \in 1..Len(state) :
       Cardinality({j \in 1..Len(result) : result[j].label = state[k].label}) = 1
       /\ \E j \in 1..Len(result) : result[j] = state[k]
  /\ \A k \in 1..Len(parameters) :
       \/ \E i \in 1..Len(state) : state[i].label = parameters[k].label
       \/ \E j \in 1..Len(result) : result[j] = parameters[k]
  /\ \A j \in 1..Len(result) :
       \/ \E i \in 1..Len(state) : state[i] = result[j]
       \/ \E k \in 1..Len(parameters) : parameters[k] = result[j]

\* C19 as claimed: for an element that resolves a manifest the state is merged
\* into the parameters, and {url, state, ts} is written under
\* 'domx:lastRequest' exactly when the nearest dx-cache is 'true'; when no
\* manifest resolves, parameters and cache are untouched.
C19_CachedIffEnabled ==
  [][last'.op = "configRequest" =>
       LET el == last'.args[1]
           item == JsonText([kind |-> "object", url |-> last'.args[2],
                             hasState |-> TRUE,
                             state |-> JsonState(Collect(FindManifest(el).m)),
                             hasTs |-> TRUE, ts |-> now])
       IN  IF Resolves(el)
           THEN \E state \in {Collect(FindManifest(el).m)} :
                  /\ Merged(last'.args[3], state, last'.ret)
                  /\ IF NearestCacheIsTrue(el) THEN storage' = item
                     ELSE storage' = storage
           ELSE /\ last'.ret = last'.args[3]
                /\ storage' = storage]_vars

\* C19, amended: the write is attempted exactly when the nearest dx-cache is
\* 'true', with the JSON of {url: path, state, ts: now}; it replaces the cached
\* item unless setItem throws, which leaves the cache as it was; the state is
\* merged into the parameters either way; when no manifest resolves, there is
\* no write and the parameters are as they were.
C19_CacheAttemptedIffEnabled ==
  [][last'.op = "configRequest" =>
       LET el == last'.args[1]
           item == JsonText([kind |-> "object", url |-> last'.args[2],
                             hasState |-> TRUE,
                             state |-> JsonState(Collect(FindManifest(el).m)),
                             hasTs |-> TRUE, ts |-> now])
           calls == last'.calls
       IN  IF Resolves(el)
           THEN \E state \in {Collect(FindManifest(el).m)} :
                  /\ Merged(last'.args[3], state, last'.ret)
                  /\ IF NearestCacheIsTrue(el)
                     THEN /\ Len(calls) = 1 /\ calls[1].fn = "setItem"
                          /\ calls[1].target = "domx:lastRequest"
                          /\ calls[1].payload = item
                          /\ storage' = (IF calls[1].threw THEN storage ELSE item)
                     ELSE calls = <<>> /\ storage' = storage
           ELSE /\ last'.ret = last'.args[3]
                /\ calls = <<>>
                /\ storage' = storage]_vars

\* A request for c under <body dx-manifest dx-cache="true"> with c's own
\* dx-cache empty and body's neither 'true' nor 'false', so that html's 'true'
\* decides: the request is cached, and the state's a replaced the parameter a.
C19_Witness ==
  /\ last.op = "configRequest" /\ last.args[1] = "c"
  /\ attrs["c"].cache = "" /\ attrs["body"].cache = "yes" /\ attrs["html"].cache = "true"
  /\ last.calls # <<>> /\ ~last.calls[1].threw
  /\ storage = last.calls[1].payload
  /\ last.args[3] # <<>>
  /\ \E j \in 1..Len(last.ret) : last.ret[j].label = "a" /\ last.ret[j].value = "x1"
  /\ \E j \in 1..Len(last.ret) : last.ret[j].label = "page"

\* C24 as claimed: a session has at most one delegated listener registered for
\* an event name, however many of its entries that event triggers.
C24_OneListenerPerEventName ==
  \A s \in Sessions : \A type \in EventTypes :
    Cardinality({i \in 1..Len(listeners) :
                   listeners[i].s = s /\ listeners[i].type = type}) <= 1

\* C27: a cancel of session s removes the listeners, the mutation handler and
\* the frame request of s and nothing else: the listeners of the other
\* session, the other subscribers of the watcher in their order, the on()
\* callbacks, the other session's pending flush and its frame request, the
\* queued records and the watcher itself are as they were.
C27_CancelRemovesOwnRegistrations ==
  [][last'.op = "cancel" =>
       LET s == last'.s
       IN  /\ listeners' = SelectSeq(listeners, LAMBDA l : l.s # s)
           /\ observerCallbacks' = SelectSeq(observerCallbacks, LAMBDA c : c # s)
           /\ rafQueue' = SelectSeq(rafQueue, LAMBDA r : r.s # s)
           /\ running' = SelectSeq(running, LAMBDA r : r.s # s)
           /\ \A t \in Sessions \ {s} :
                /\ pending'[t] = pending[t] /\ trig'[t] = trig[t]
                /\ status'[t] = status[t] /\ manifest'[t] = manifest[t]
                /\ callback'[t] = callback[t]
                /\ EntriesFor(t)' = EntriesFor(t)
           /\ UNCHANGED <<onCallbacks, onHandles, records, sharedObserver, created, dom>>]_vars

\* Session s was cancelled with a flush pending while the other session, started
\* with the same manifest and the same callback, has its own flush pending and
\* its listeners, and an on() subscriber is registered.
C27_Witness ==
  /\ last.op = "cancel" /\ last.type = "first" /\ last.n = 1
  /\ \E t \in Sessions \ {last.s} :
       /\ status[t] = "active" /\ manifest[t] = manifest[last.s]
       /\ callback[t] = callback[last.s]
       /\ pending[t] # 0 /\ EntriesFor(t) = 1
       /\ \E i \in 1..Len(listeners) : listeners[i].s = t
       /\ t \in Indexed(observerCallbacks)
  /\ "f1" \in Indexed(observerCallbacks)

\* C28: once constructed, the watcher is never replaced nor set back to null,
\* no second one is constructed, and it goes on recording changes of body
\* whoever is subscribed, so that a later observe() or on() finds it and is
\* handed the batches delivered from then on.
C28_WatcherNeverTornDown ==
  [][/\ sharedObserver # 0 =>
          /\ sharedObserver' = sharedObserver /\ created' = created
          /\ last'.op = "setAttribute" /\ last'.target = "body" =>
               records' = Append(records, [type |-> "attributes", target |-> "body"])
     /\ last'.op = "deliver" =>
          /\ sharedObserver # 0
          /\ last'.invoked = observerCallbacks]_vars

\* Every session is cancelled and every on() subscriber removed: the watcher
\* is there with no subscriber, and has just recorded a change of body.
C28_Witness ==
  /\ \A s \in Sessions : status[s] = "cancelled"
  /\ onHandles = OnFns /\ observerCallbacks = <<>> /\ onCallbacks = <<>>
  /\ sharedObserver = 1 /\ created = 1
  /\ last.op = "setAttribute" /\ records # <<>>

\* Whether step (x, x') made a frame request for session s or counted a trigger.
Scheduled(s) ==
  \/ trig'[s] > trig[s]
  \/ pending[s] = 0 /\ pending'[s] # 0
  \/ EntriesFor(s)' > EntriesFor(s)

\* C21: an event schedules a flush for a session only through a listener the
\* session registered for the event's type whose entry's selector the target
\* itself matches; every other step but a delivery of records schedules
\* nothing, so an event on a descendant of a matching element, or of another
\* type, leads to no callback invocation.
C21_EventTargetMustMatch ==
  [][/\ last'.op = "event" =>
          /\ last'.fired # {}
          /\ \A e \in last'.fired :
               /\ \E k \in 1..Len(listeners) :
                    listeners[k] = [type |-> last'.type, s |-> e[1], i |-> e[2]]
               /\ Matches(last'.target, manifest[e[1]][e[2]].selector)
     /\ \A s \in Sessions :
          Scheduled(s) =>
            /\ last'.op \in {"event", "deliver"}
            /\ \E e \in last'.fired : e[1] = s]_vars

\* A change event on body fired the entry whose selector is body; the events
\* on a, b and c that bubble to the same listener are the steps that schedule
\* nothing.
C21_Witness ==
  /\ last.op = "event" /\ last.type = "change" /\ last.target = "body"
  /\ \E s \in Sessions :
       /\ manifest[s] = WatchManifest
       /\ last.fired = {<<s, 2>>}
       /\ pending[s] # 0 /\ trig[s] = 1

\* The proper ancestors of a node that are elements, nearest first.
ProperAncestors(n) == AncestorsOrSelf(ParentElement(n))

\* Whether the batch has a record whose target is an element that matches, or
\* has a proper ancestor that matches, the selector of an entry of m for which
\* getWatchEvent gives no event now.
BatchIsRelevant(m, batch) ==
  \E k \in 1..Len(batch) : \E i \in 1..Len(m) :
    /\ m[i].watch = Undefined /\ m[i].read \notin {"value", "checked"}
    /\ NodeType(batch[k].target) = 1
    /\ \/ Matches(batch[k].target, m[i].selector)
       \/ \E j \in 1..Len(ProperAncestors(batch[k].target)) :
            Matches(ProperAncestors(batch[k].target)[j], m[i].selector)

\* C22: a delivery calls scheduleCallback once for each subscribed session
\* whose manifest, as it is at the delivery, makes the batch relevant, and for
\* no other: the session then has one frame request and one more trigger
\* counted, however many records of the batch are relevant.
C22_RelevantBatchSchedulesOnce ==
  [][last'.op = "deliver" =>
       \A s \in Sessions :
         IF s \in Indexed(observerCallbacks) /\ BatchIsRelevant(manifest[s], records)
         THEN /\ \E e \in last'.fired : e[1] = s
              /\ pending'[s] # 0 /\ EntriesFor(s)' = 1
              /\ trig'[s] = (IF trig[s] < MaxTrig THEN trig[s] + 1 ELSE trig[s])
              /\ Len(rafQueue') = Len(rafQueue) + (IF pending[s] = 0 THEN 1 ELSE 0)
         ELSE ~Scheduled(s) /\ \A e \in last'.fired : e[1] # s]_vars

\* A batch of two records of body, delivered after the caller deleted the
\* watch of the entry on body, which the handler's list now has: one call of
\* scheduleCallback and one frame request.
C22_Witness ==
  /\ last.op = "deliver" /\ last.n = 2
  /\ \E s \in Sessions :
       /\ status[s] = "active" /\ Len(manifest[s]) = Len(WatchManifest)
       /\ manifest[s][2].selector = "body" /\ manifest[s][2].watch = Undefined
       /\ manifest[s][2].read = "attr:data-x"
       /\ last.fired = {<<s, 2>>}
       /\ pending[s] # 0 /\ EntriesFor(s) = 1 /\ trig[s] = 1

\* C23 as claimed: a change of the text node inside an element that a text-read
\* entry of a live session matches leaves a record of the text node for the
\* mutation handler, which schedules a flush for it through the ancestor rule.
C23_TextChangeIsRecorded ==
  (/\ last.op = "setData" /\ sharedObserver # 0
   /\ \E s \in Sessions : \E i \in 1..Len(manifest[s]) :
        /\ status[s] = "active" /\ manifest[s][i].read = "text"
        /\ manifest[s][i].watch = Undefined
        /\ Closest(ParentElement(last.target), manifest[s][i].selector) # Null)
    => \E k \in 1..Len(records) : records[k].target = last.target

\* C25 as claimed: a session whose manifest has only entries with neither read
\* nor write is never called back and never has a flush scheduled.
C25_InertEntriesNeverCallBack ==
  \A s \in Sessions :
    (/\ manifest[s] # <<>>
     /\ \A i \in 1..Len(manifest[s]) :
          manifest[s][i].read = Undefined /\ manifest[s][i].write = Undefined)
      => ~Flushed(s) /\ pending[s] = 0

\* C26 as claimed: every entry of a live session that has a read has a
\* delegated listener or is in the list the mutation handler computes, and
\* not both.
C26_ExactlyOneTriggerPath ==
  \A s \in Sessions : \A i \in 1..Len(manifest[s]) :
    (status[s] = "active" /\ manifest[s][i].read # Undefined) =>
      ((\E k \in 1..Len(listeners) : listeners[k].s = s /\ listeners[k].i = i)
         <=> i \notin Indexed(WatchedSelectors(manifest[s])))

\* Whether m has an entry with a selector whose read is a string that is no
\* shortcut.
HasUnknownShortcut(m) ==
  \E i \in 1..Len(m) :
    /\ m[i].selector # Undefined
    /\ m[i].read \notin {Undefined, "fn", "value", "checked", "text", "attr:data-x", "data:x"}

\* C29: observe() with a manifest that has an unknown read shortcut returns
\* normally and the session is live; every flush of that session, and every
\* direct collect() of that manifest, ends with the exception; and whenever the
\* snapshot read of a flush throws, the exception leaves the frame callback and
\* the callback is not called.
C29_UnknownShortcutFaultsAtRead ==
  [][/\ \A m \in FaultManifests :
          Observe(m) =>
            /\ last'.op = "idle" /\ ~last'.threw
            /\ \E s \in Sessions :
                 status[s] = "none" /\ status'[s] = "active" /\ manifest'[s] = m
     /\ last'.op = "flush" =>
          /\ HasUnknownShortcut(manifest[last'.s]) =>
               last'.calls[1].fn = "collect" /\ last'.calls[1].threw
          /\ last'.calls[1].threw =>
               /\ last'.threw
               /\ Len(last'.calls) = 1
               /\ \A k \in 1..Len(last'.calls) : last'.calls[k].fn # "callback"
     /\ last'.op = "collect" =>
          (HasUnknownShortcut(last'.args[1]) => last'.threw)]_vars

\* A flush of a live session whose manifest has the shortcut 'bogus', two
\* triggers after the session started: collect threw and nothing else was
\* called.
C29_Witness ==
  /\ last.op = "flush" /\ last.threw /\ last.n = 2
  /\ status[last.s] = "active" /\ manifest[last.s] = BadManifest
  /\ Len(last.calls) = 1 /\ last.calls[1].fn = "collect" /\ last.calls[1].threw

\* C30: a frame callback that ends with an exception leaves the session with
\* no pending flush, no frame request and all its registrations; from then on
\* a frame request for the session is made only by a trigger that fires for
\* it, every such trigger leaves exactly one, and the flush that answers it
\* reads the snapshot again and calls the callback with it.
C30_FaultLeavesSessionLive ==
  [][/\ (last'.op = "flush" /\ last'.threw) =>
          /\ pending[last'.s] # 0 /\ pending'[last'.s] = 0
          /\ \A k \in 1..Len(rafQueue' \o running') :
               (rafQueue' \o running')[k].s # last'.s
          /\ trig'[last'.s] = 0
          /\ running' = Tail(running)
          /\ UNCHANGED <<listeners, observerCallbacks, onCallbacks, status, manifest,
                         sharedObserver, records, rafQueue, dom>>
     /\ \A s \in Sessions :
          faults[s] > 0 =>
            /\ (last'.op \in {"event", "deliver"} /\ \E e \in last'.fired : e[1] = s)
                 => pending'[s] # 0 /\ EntriesFor(s)' = 1
            /\ EntriesFor(s)' > EntriesFor(s)
                 => last'.op \in {"event", "deliver"} /\ \E e \in last'.fired : e[1] = s
            /\ (last'.op = "flush" /\ last'.s = s) =>
                 /\ last'.n >= 1
                 /\ last'.calls[1].fn = "collect"
                 /\ ~last'.calls[1].threw =>
                      /\ Len(last'.calls) = 2 /\ last'.calls[2].fn = "callback"
                      /\ last'.calls[2].payload = Collect(manifest[s])]_vars

\* The callback returned normally from a flush that answers a trigger made
\* after an earlier flush of the session threw.
C30_Witness ==
  /\ last.op = "flush" /\ ~last.threw /\ last.n >= 1
  /\ faults[last.s] >= 1 /\ status[last.s] = "active"
  /\ Len(last.calls) = 2 /\ last.calls[2].fn = "callback" /\ ~last.calls[2].threw
  /\ last.snap # <<>>

\* Object spread of two header objects: {...base, ...over}; over wins on a key
\* that both carry.
SpreadHeaders(base, over) == over @@ base

\* C39: for every opts, the request issued by send(url, manifest, opts) has
\* method POST, the JSON of the collected state as body, and as headers
\* {Content-Type: application/json} merged with opts.headers, so that custom
\* headers are added and Content-Type is kept.
C39_SendMergesHeaders ==
  last.op = "send" =>
    LET opts == last.args[3]
        init == Fetches(last)[1].payload
        custom == IF "headers" \in DOMAIN opts THEN opts.headers ELSE <<>>
    IN  /\ Len(Fetches(last)) = 1
        /\ init.method = "POST"
        /\ init.body = JsonText(JsonState(Collect(last.args[2])))
        /\ init.headers = SpreadHeaders(ContentType, custom)
        /\ "ContentType" \in DOMAIN init.headers

\* Whether the step fired a trigger of session s: one of its delegated
\* handlers or its mutation handler called scheduleCallback.
Triggered(s) == \E e \in last'.fired : e[1] = s

\* Whether entry e = <<s, i>> had reason to fire in the step: an event of a
\* type the session listens to for entry i on a target the entry's selector
\* matches, or a delivered batch with a record of an element that matches, or
\* lies inside an element that matches, the selector of a mutation-watched entry.
Genuine(e) ==
  LET s == e[1]
      entry == manifest[s][e[2]]
  IN  /\ status[s] = "active"
      /\ \/ /\ last'.op = "event"
            /\ \E k \in 1..Len(listeners) :
                 listeners[k] = [type |-> last'.type, s |-> s, i |-> e[2]]
            /\ Matches(last'.target, entry.selector)
         \/ /\ last'.op = "deliver"
            /\ s \in Indexed(observerCallbacks)
            /\ EventOf(entry) = Null
            /\ \E k \in 1..Len(records) :
                 /\ NodeType(records[k].target) = 1
                 /\ \E j \in 1..Len(AncestorsOrSelf(records[k].target)) :
                      Matches(AncestorsOrSelf(records[k].target)[j], entry.selector)

\* C31: a callback invocation of a session answers at least one trigger that
\* fired for that session since its previous invocation (or since observe());
\* a frame request of a session appears only in a step that fired a genuine
\* trigger of that session; and a session with no trigger since its last flush
\* has no frame request and is not called back, whatever the step does for
\* other sessions.
C31_NoSpuriousCallback ==
  [][\A s \in Sessions :
       /\ \A e \in last'.fired : Genuine(e)
       /\ Scheduled(s) => Triggered(s)
       /\ (last'.op = "flush" /\ last'.s = s) =>
            /\ trig[s] >= 1 /\ last'.n = trig[s]
            /\ EntriesFor(s) = 1
            /\ trig'[s] = 0 /\ EntriesFor(s)' = 0 /\ pending'[s] = 0
       /\ (trig[s] = 0 /\ ~Triggered(s)) =>
            /\ ~(last'.op = "flush" /\ last'.s = s)
            /\ trig'[s] = 0 /\ EntriesFor(s)' = 0 /\ pending'[s] = 0]_vars

\* One session was called back for its trigger while another live, subscribed
\* session with a different manifest had none: it has no frame request.
C31_Witness ==
  /\ last.op = "flush" /\ last.n >= 1
  /\ \E t \in Sessions \ {last.s} :
       /\ status[last.s] = "active" /\ status[t] = "active"
       /\ manifest[t] # manifest[last.s]
       /\ t \in Indexed(observerCallbacks)
       /\ trig[t] = 0 /\ pending[t] = 0 /\ EntriesFor(t) = 0

\* C32: a trigger the callback itself fires while its flush executes is not
\* merged into that flush and not lost.  The flush answers the triggers counted
\* before it; an event the callback dispatches on a watched element leaves the
\* session with a fresh frame request in the list for the next frame, outside
\* the frame under way, and one trigger counted; an attribute write leaves a
\* record whose delivery brings the same.  A live session whose callback
\* re-triggers it every time is therefore called back again and again.
C32_TriggerDuringFlushSchedulesNext ==
  /\ [][last'.op = "flush" =>
          LET s == last'.s
          IN  /\ last'.n = trig[s] /\ last'.n >= 1
              /\ last'.snap = Collect(manifest[s])
              /\ last'.calls[2].fn = "dispatchEvent" =>
                   /\ \E e \in last'.fired : e[1] = s
                   /\ trig'[s] = Cardinality({e \in last'.fired : e[1] = s})
                   /\ pending'[s] # 0
                   /\ \E k \in 1..Len(rafQueue') :
                        rafQueue'[k] = [h |-> pending'[s], s |-> s]
                   /\ \A k \in 1..Len(running') : running'[k].s # s
                   /\ Len(SelectSeq(rafQueue', LAMBDA r : r.s = s)) = 1
              /\ last'.calls[2].fn = "setAttribute" =>
                   /\ records' = Append(records, [type |-> "attributes", target |-> "body"])
                   /\ s \in Indexed(observerCallbacks)
                   /\ MutationHandler(manifest[s], records') # 0
                   /\ trig'[s] = 0 /\ pending'[s] = 0]_vars
  /\ \A s \in Sessions :
       /\ (Flushed(s) /\ status[s] = "active") ~> ~Flushed(s)
       /\ (status[s] = "active" /\ trig[s] > 0 /\ ~Flushed(s))
            ~> (Flushed(s) \/ status[s] # "active")
       /\ (Flushed(s) /\ status[s] = "active")
            ~> (status[s] # "active" \/ (trig[s] > 0 /\ ~Flushed(s)))

\* The callback of a session answered two triggers and dispatched an event one
\* of its own handlers answers: the session has one trigger counted and a
\* frame request for the next frame while the frame under way has none of it.
C32_Witness ==
  /\ last.op = "flush" /\ last.n = 2
  /\ last.calls[2].fn = "dispatchEvent"
  /\ status[last.s] = "active"
  /\ trig[last.s] = 1 /\ pending[last.s] # 0
  /\ \E k \in 1..Len(rafQueue) : rafQueue[k].s = last.s
  /\ \A k \in 1..Len(running) : running[k].s # last.s

\* How many times x occurs in seq.
Occurrences(seq, x) == Len(SelectSeq(seq, LAMBDA y : y = x))

\* C33: a delivery calls the subscribers registered at the delivery, whoever
\* was registered when the change was made: a subscriber added since the
\* batch's first record was queued is called (a session among them is scheduled
\* for a relevant batch, for a change that predates its observe()), and one
\* removed since is not called and not scheduled.
C33_SubscribersResolvedAtDelivery ==
  [][last'.op = "deliver" =>
       /\ last'.invoked = observerCallbacks
       /\ \A c \in Indexed(observerCallbacks) \ Indexed(seen) :
            /\ Occurrences(last'.invoked, c) = 1
            /\ (c \in Sessions /\ BatchIsRelevant(manifest[c], records)) =>
                 /\ \E e \in last'.fired : e[1] = c
                 /\ pending'[c] # 0 /\ EntriesFor(c)' = 1 /\ trig'[c] >= 1
       /\ \A c \in Indexed(seen) \ Indexed(observerCallbacks) :
            /\ Occurrences(last'.invoked, c) = 0
            /\ c \in Sessions =>
                 /\ \A e \in last'.fired : e[1] # c
                 /\ pending'[c] = 0 /\ EntriesFor(c)' = 0]_vars

\* A batch was delivered to a session and to an on() callback that were both
\* registered after its record was queued, and not to the on() callback that
\* was registered then and removed since; the session is scheduled.
C33_Witness ==
  /\ last.op = "deliver" /\ last.n >= 1
  /\ \E s \in Sessions, f \in OnFns, g \in OnFns :
       /\ s \notin Indexed(seen) /\ f \notin Indexed(seen) /\ g \in Indexed(seen)
       /\ Occurrences(last.invoked, s) = 1
       /\ Occurrences(last.invoked, f) = 1
       /\ Occurrences(last.invoked, g) = 0
       /\ last.fired = {<<s, 1>>}
       /\ pending[s] # 0 /\ EntriesFor(s) = 1 /\ trig[s] = 1

\* C34: on() keys its registrations by the function.  A second on(f) adds no
\* second entry, so a batch calls f once however many times it was
\* subscribed; the first call of any unsubscribe function on(f) returned
\* removes f from both sets, so f is not called afterwards although another
\* unsubscribe function of it was never called.
C34_OnKeyedByFunction ==
  [][\A f \in OnFns :
       /\ subs'[f] > subs[f] =>
            /\ Occurrences(observerCallbacks', f) = 1
            /\ Occurrences(onCallbacks', f) = 1
            /\ Occurrences(observerCallbacks, f) = 1 =>
                 observerCallbacks' = observerCallbacks /\ onCallbacks' = onCallbacks
       /\ subs'[f] < subs[f] =>
            /\ Occurrences(observerCallbacks', f) = 0
            /\ Occurrences(onCallbacks', f) = 0
       /\ last'.op = "deliver" =>
            /\ Occurrences(last'.invoked, f) = Occurrences(observerCallbacks, f)
            /\ Occurrences(last'.invoked, f) <= 1]_vars

\* A batch was delivered while one callback had two unsubscribe functions
\* waiting and was called once, and the other callback, with one of its two
\* unsubscribe functions called and the other waiting, was not called.
C34_Witness ==
  /\ last.op = "deliver"
  /\ \E f \in OnFns, g \in OnFns :
       /\ subs[f] = 2 /\ Occurrences(last.invoked, f) = 1
       /\ subs[g] = 1 /\ Occurrences(last.invoked, g) = 0
       /\ Occurrences(observerCallbacks, g) = 0 /\ Occurrences(onCallbacks, g) = 0

\* The position of the first subscriber that throws for the waiting batch, 0
\* when none does.
FirstThrower(throwing) ==
  LET at == {k \in 1..Len(observerCallbacks) :
               SubscriberThrows(observerCallbacks[k], throwing)}
  IN  IF at = {} THEN 0 ELSE CHOOSE k \in at : \A j \in at : k <= j

\* C35: the fan-out has no isolation.  When a subscriber throws for a batch (an
\* on() callback, or the mutation handler of a session whose manifest holds an
\* invalid selector), the delivery calls the subscribers up to it in insertion
\* order and none after it: a session after it is not scheduled although the
\* batch is relevant to it.  When nobody throws, every subscriber is called.
C35_ThrowingSubscriberStarvesLater ==
  [][last'.op = "deliver" =>
       \E throwing \in {last'.args[1]} :
         \E k \in {FirstThrower(throwing)} :
           IF k = 0
           THEN ~last'.threw /\ last'.invoked = observerCallbacks
           ELSE /\ last'.threw
                /\ last'.invoked = SubSeq(observerCallbacks, 1, k)
                /\ \A j \in (k + 1)..Len(observerCallbacks) :
                     /\ Occurrences(last'.invoked, observerCallbacks[j]) = 0
                     /\ observerCallbacks[j] \in Sessions =>
                          /\ ~Scheduled(observerCallbacks[j])
                          /\ \A e \in last'.fired : e[1] # observerCallbacks[j]
                /\ \A e \in last'.fired :
                     \E j \in 1..(k - 1) : observerCallbacks[j] = e[1]]_vars

\* The mutation handler of the session with the invalid selector threw for a
\* record of body: the session subscribed after it, whose entry on body makes
\* the batch relevant, was not called and has no flush scheduled, and the on()
\* callback after them was not called either.
C35_Witness ==
  /\ last.op = "deliver" /\ last.threw /\ last.n >= 1
  /\ \E s \in Sessions, t \in Sessions, f \in OnFns :
       /\ manifest[s] = BrokenManifest /\ manifest[t] = CustomManifest
       /\ status[s] = "active" /\ status[t] = "active"
       /\ observerCallbacks = <<s, t, f>>
       /\ last.invoked = <<s>>
       /\ last.fired = {}
       /\ pending[t] = 0 /\ trig[t] = 0 /\ EntriesFor(t) = 0

\* The live sessions whose callback dispatches dx:change on el.
SessionsOf(el) == {s \in Sessions : status[s] = "active" /\ callback[s] = el}

Holder(el) ==
  LET holders == SelectSeq(AncestorsOrSelf(el),
                           LAMBDA n : attrs[n].manifest \notin {Null, ""})
  IN  IF holders = <<>> THEN Null ELSE holders[1]

C38_RoundTrip ==
  [][\A m \in RoundTripManifests :
       (last'.op = "apply" /\ last'.args[1] = m) =>
         /\ \A i \in 1..Len(m) :
              DOMAIN last'.args[2] = {m[i].label} =>
                \E after \in {CollectEntry(m[i])'} :
                  /\ after.shape = "single" => after.value = last'.args[2][m[i].label]
                  /\ after.shape = "array" =>
                       \A j \in 1..Len(after.values) :
                         after.values[j] = last'.args[2][m[i].label]
         /\ (m = RoundTripManifest /\ last'.args[2] = SnapshotState(Collect(m))) =>
              Collect(m)' = Collect(m)]_vars

\* The two round trips that hold: a written string or boolean is read back,
\* once or as many times as there are elements, and a snapshot without null
\* and undefined is unchanged by applying it.
RoundTripOfPresentValues ==
  [][\A m \in RoundTripManifests :
       (last'.op = "apply" /\ last'.args[1] = m) =>
         /\ \A i \in 1..Len(m) :
              DOMAIN last'.args[2] = {m[i].label} =>
                \E after \in {CollectEntry(m[i])'} :
                  /\ after.shape = "single" => after.value = last'.args[2][m[i].label]
                  /\ after.shape = "array" =>
                       /\ Len(after.values) = 2
                       /\ \A j \in 1..Len(after.values) :
                            after.values[j] = last'.args[2][m[i].label]
         /\ (/\ m = RoundTripManifest
             /\ last'.args[2] = SnapshotState(Collect(m))
             /\ \A l \in DOMAIN last'.args[2] : last'.args[2][l] \notin {Null, Undefined}) =>
              Collect(m)' = Collect(m)]_vars

====
